---- MODULE Spec2Model ----
(***************************************************************************)
(* Proximity-based transit aggregation of spotplots.com:                   *)
(*   - the Nearby-Stop Locator   (app/lib/get_nearby_stops.ts),            *)
(*   - the Route Departure Aggregator                                      *)
(*                               (app/lib/get_nearby_stop_times.ts),       *)
(*   - their HTTP handlers       (app/api/get_nearby_stops/route.ts,       *)
(*                                app/api/get_nearby_routes/route.ts),     *)
(*   - the cached data-store connection (app/lib/db.ts).                   *)
(*   - the listings proxy        (app/api/listings/route.ts),              *)
(*   - the address suggestions   (components/AddressDropdown.tsx).         *)
(*                                                                         *)
(* One request is followed from the handler's entry to its response; every *)
(* await of the code is a step of its own, and a step that touches the     *)
(* data store may fail.                                                    *)
(***************************************************************************)
EXTENDS Integers, Sequences, FiniteSets, TLC

\* ------------------------------------------------------------- bounds
\* The largest number of trips of one route at one stop.
MaxTrips == 11

\* The largest radius (metres) and the largest limit a request asks for.
MaxRadius == 2

MaxLimit == 2

\* ---------------------------------------------------------- constants
\* Math.round(tripCount / 7)
DaysPerWeek == 7

\* ------------------------------------------------------------ helpers
Range(s) == {s[i] : i \in DOMAIN s}

Min(a, b) == IF a <= b THEN a ELSE b

Max(a, b) == IF a >= b THEN a ELSE b

\* All sequences of length n over S without repetition.
RECURSIVE SeqsNoRep(_, _)
SeqsNoRep(S, n) ==
  IF n = 0 THEN {<<>>}
  ELSE UNION {{Append(q, x) : x \in S \ Range(q)} : q \in SeqsNoRep(S, n - 1)}

\* Every order in which the elements of the set S can be listed.
Orders(S) == SeqsNoRep(S, Cardinality(S))

\* ------------------------------------------------------- the data set
StopIds == {"s1", "s2", "s3"}

RouteIds == {"r1", "r2"}

\* A trip id is <<route group, number>>; group "u" holds a trip whose
\* route cannot be resolved.

\* Display names are strings; their order (String.prototype ordering) is
\* given as a rank: "145" < "17" < "r1" < "r2".
NameRank(n) ==
  CASE n = "145" -> 1
    [] n = "17" -> 2
    [] n = "r1" -> 3
    [] n = "r2" -> 4
    [] OTHER -> 0

\* Coordinates of the model are millimetres north and east of the query
\* point on the local tangent plane; a stop document is
\* [stop_id, stop_lat, stop_lon] in these units.
Points == {<<0, 0>>, <<996, 0>>, <<600, 800>>, <<1001, 0>>, <<800, 800>>, <<1995, 0>>}

VARIABLES
  Stop,             \* the stops collection, in the store's natural order
  request,          \* the request: method, path and raw query parameters
  nearbyStops,      \* <<>> or <<the Locator's result>>
  StopTime,         \* the stop_times collection: [trip_id, stop_id, stop_sequence]
  Trip,             \* the trips collection: [trip_id, route_id]
  Route,            \* the routes collection: [route_id, route_short_name]
  cached,           \* db.ts: cached.conn is set
  pc,               \* where the request is
  body,             \* POST body: [isArray, stops]
  sortedStops,
  stopTripsMap,     \* stop_id -> set of trip ids (a Map; absent key = no entry)
  allRoutes,        \* result of the Trip aggregation
  tripRouteMap,     \* trip_id -> route id
  walkIdx,          \* the for-loop's position in sortedStops
  routeDepartures,  \* Map<string, number> in insertion order: <<[route, departures]>>
  processedRoutes,  \* Set<string> of route ids
  result,           \* <<>> or <<RoutesResponse>>
  status,           \* HTTP status of the response, 0 while none
  nConnect,         \* connect() calls of this request
  nQuery,           \* queries sent to the store by this request
  failed,           \* a connect or a query of this request has failed
  first,            \* <<>> or <<[useManual, stops]>>: what an earlier call of the
                    \* Locator with the same parameters returned
  stopTripIds,      \* getNearbyStopTimes: the trip ids of the stop being processed
  proc,             \* concurrent aggregations: request number -> its locals
  opts,             \* the options the store connection is made with
  listing,          \* the state of a POST /api/listings request
  db,               \* the connection cache and the connect() calls in flight
  dropdown,         \* AddressDropdown: its state, debounce timer and requests
  nSchedule         \* StopTime and Trip aggregations sent by this request

dataVars == <<StopTime, Trip, Route>>

aggVars == <<sortedStops, stopTripsMap, allRoutes, tripRouteMap, walkIdx,
             routeDepartures, processedRoutes>>

locVars == <<Stop, nearbyStops>>

\* What the steps of one nearby-stops or POST nearby-routes request leave alone.
extVars == <<first, stopTripIds, proc, opts, listing, db, dropdown>>

vars == <<Stop, request, nearbyStops, StopTime, Trip, Route, cached, pc, body, sortedStops, stopTripsMap,
          allRoutes, tripRouteMap, walkIdx, routeDepartures, processedRoutes,
          result, status, nConnect, nQuery, failed, first, stopTripIds, proc, opts, listing, db, dropdown,
          nSchedule>>

\* ------------------------------------------------------ JS numbers
\* A parsed number is a value or NaN; every comparison with NaN is false.
Num(v) == [nan |-> FALSE, v |-> v]

NaN == [nan |-> TRUE, v |-> 0]

JsLt(a, b) == ~a.nan /\ ~b.nan /\ a.v < b.v

JsGt(a, b) == ~a.nan /\ ~b.nan /\ a.v > b.v

\* A raw query parameter: absent (or empty), a text that starts with no
\* number, or a text that starts with the number v.
Absent == [kind |-> "absent", v |-> 0]

Text == [kind |-> "text", v |-> 0]

Numeral(v) == [kind |-> "num", v |-> v]

\* parseFloat(searchParams.get(name) || '')
ParseFloatParam(raw) == IF raw.kind = "num" THEN Num(raw.v) ELSE NaN

\* parseInt(searchParams.get(name) || dflt)
ParseIntParam(raw, dflt) ==
  CASE raw.kind = "absent" -> Num(dflt)
    [] raw.kind = "num" -> Num(raw.v)
    [] OTHER -> NaN

\* ------------------------------------------------- Nearby-Stop Locator
\* maxDistance defaults to 1000, limit to 50 (route.ts and the options)
DefaultMaxDistance == 1000

DefaultLimit == 50

\* latRange = maxDistance / 111000
BoxMetersPerDegree == 111000

\* const R = 6371000 (metres)
EarthRadius == 6371000

\* R * Math.PI / 180, the metres of one degree of arc (111195), with
\* Math.PI taken as 3.1416
MetersPerDegree == ((EarthRadius \div 1000) * 31416) \div 1800

\* actualLimit = Math.max(limit * 10, 1000)
OverFetchFactor == 10

OverFetchFloor == 1000

\* The half width of the bounding box in millimetres: maxDistance / 111000
\* degrees are maxDistance * 111195 / 111000 metres of arc. (The longitude
\* range is divided by cos(lat) and a degree of longitude is cos(lat) times
\* shorter, so the box has the same half width east as north.)
BoxHalfWidth(maxDistance) ==
  LET m == maxDistance * 1000
  IN  m + (m * (MetersPerDegree - BoxMetersPerDegree)) \div BoxMetersPerDegree

Abs(x) == IF x < 0 THEN 0 - x ELSE x

\* stop_lat in [lat - latRange, lat + latRange] and stop_lon likewise
InBox(stop, maxDistance) ==
  /\ ~maxDistance.nan
  /\ Abs(stop.stop_lat) <= BoxHalfWidth(maxDistance.v)
  /\ Abs(stop.stop_lon) <= BoxHalfWidth(maxDistance.v)

\* Stop.find({stop_lat: {...}, stop_lon: {...}}).limit(actualLimit): the
\* first actualLimit documents of the box in natural order.
FindInBox(coll, maxDistance, actualLimit) ==
  LET idx == {i \in 1..Len(coll) : InBox(coll[i], maxDistance)}
      nth(k) == CHOOSE i \in idx : Cardinality({j \in idx : j < i}) = k - 1
  IN  [k \in 1..Min(Cardinality(idx), actualLimit) |-> coll[nth(k)]]

\* The largest r in lo..hi with r * r <= n.
RECURSIVE ISqrtIn(_, _, _)
ISqrtIn(n, lo, hi) ==
  IF lo >= hi THEN lo
  ELSE LET mid == (lo + hi + 1) \div 2
       IN  IF mid * mid <= n THEN ISqrtIn(n, mid, hi) ELSE ISqrtIn(n, lo, mid - 1)

ISqrt(n) == ISqrtIn(n, 0, Min(n, 30000))

\* calculateDistance: the great-circle distance, which on the tangent plane
\* is sqrt(dLat^2 + dLng^2); the value kept is its square, in mm^2, so that
\* no precision is lost.
calculateDistance2(stop) == stop.stop_lat * stop.stop_lat + stop.stop_lon * stop.stop_lon

\* Mutant: the test is distance < maxDistance.
WithinRadius_Strict(d2, maxDistance) ==
  /\ ~maxDistance.nan
  /\ LET r == ISqrt(d2)
     IN  (IF r * r = d2 THEN r ELSE r + 1) < maxDistance.v * 1000

\* distance <= maxDistance, for maxDistance in metres
WithinRadius(d2, maxDistance) ==
  /\ ~maxDistance.nan
  /\ LET r == ISqrt(d2)
     IN  (IF r * r = d2 THEN r ELSE r + 1) <= maxDistance.v * 1000

\* Math.round(distance * 100) / 100, in hundredths of a metre:
\* floor(sqrt(d2) / 10 + 1/2) = floor((sqrt(4 * d2) + 10) / 20)
RoundedDistance(d2) == (ISqrt(4 * d2) + 10) \div 20

\* Mutant: the loop pushes every stop of the bounding box, without the
\* distance <= maxDistance test.
FilterByDistance_NoRadiusTest(found, maxDistance) ==
  [i \in 1..Len(found) |->
     [stop_id |-> found[i].stop_id, stop_lat |-> found[i].stop_lat,
      stop_lon |-> found[i].stop_lon,
      distance |-> RoundedDistance(calculateDistance2(found[i]))]]

\* for (const stop of stops) { if (distance <= maxDistance) nearbyStops.push(...) }
RECURSIVE FilterByDistance(_, _)
FilterByDistance(found, maxDistance) ==
  IF found = <<>> THEN <<>>
  ELSE LET stop == Head(found)
           d2 == calculateDistance2(stop)
           rest == FilterByDistance(Tail(found), maxDistance)
       IN  IF WithinRadius(d2, maxDistance)
           THEN <<[stop_id |-> stop.stop_id, stop_lat |-> stop.stop_lat,
                   stop_lon |-> stop.stop_lon, distance |-> RoundedDistance(d2)]>> \o rest
           ELSE rest

\* nearbyStops.sort((a, b) => a.distance - b.distance), stable
InsertNearby(sorted, x) ==
  LET k == Cardinality({i \in 1..Len(sorted) : sorted[i].distance <= x.distance})
  IN  SubSeq(sorted, 1, k) \o <<x>> \o SubSeq(sorted, k + 1, Len(sorted))

\* Mutant: the list is returned in the order of the query.
SortNearby_Unsorted(s) == s

RECURSIVE SortNearby(_)
SortNearby(s) ==
  IF s = <<>> THEN <<>>
  ELSE InsertNearby(SortNearby(SubSeq(s, 1, Len(s) - 1)), s[Len(s)])

\* .slice(0, limit): slice(0, NaN) is empty
Slice(s, limit) == IF limit.nan THEN <<>> ELSE SubSeq(s, 1, Min(Len(s), limit.v))

\* Math.max(limit * 10, 1000); with a NaN limit the store is given no usable
\* limit and every document of the box is returned.
ActualLimit(limit, n) ==
  IF limit.nan THEN n ELSE Max(limit.v * OverFetchFactor, OverFetchFloor)

\* Mutant: the nearbyStops array outlives the call, so a later call pushes
\* onto what the earlier call found.
NearbyStopsManual_KeepsArray(coll, maxDistance, limit) ==
  LET stops == FindInBox(coll, maxDistance, ActualLimit(limit, Len(coll)))
      kept == IF first = <<>> THEN <<>> ELSE first[1].stops
  IN  Slice(SortNearby(kept \o FilterByDistance(stops, maxDistance)), limit)

\* getNearbyStopsManual, from the documents of the collection to its result
NearbyStopsManual(coll, maxDistance, limit) ==
  LET stops == FindInBox(coll, maxDistance, ActualLimit(limit, Len(coll)))
  IN  Slice(SortNearby(FilterByDistance(stops, maxDistance)), limit)

\* ------------------------------------------- the handlers' validation
MinLat == -90

MaxLat == 90

MinLng == -180

MaxLng == 180

MinMaxDistance == 0

MaxMaxDistance == 10000

MinLimit == 1

\* The five checks of GET that answer 400.
Rejected(lat, lng, maxDistance, limit) ==
  \/ lat.nan \/ lng.nan
  \/ JsLt(lat, Num(MinLat)) \/ JsGt(lat, Num(MaxLat))
  \/ JsLt(lng, Num(MinLng)) \/ JsGt(lng, Num(MaxLng))
  \/ JsLt(maxDistance, Num(MinMaxDistance)) \/ JsGt(maxDistance, Num(MaxMaxDistance))
  \/ JsLt(limit, Num(MinLimit))

ParsedLat == ParseFloatParam(request.lat)

ParsedLng == ParseFloatParam(request.lng)

ParsedMaxDistance == ParseIntParam(request.maxDistance, DefaultMaxDistance)

ParsedLimit == ParseIntParam(request.limit, DefaultLimit)

\* --------------------------------------------- Route Departure Aggregator

\* [...stops].sort((a, b) => a.distance - b.distance): Array.prototype.sort
\* is stable, so stops of equal distance keep the caller's order.
InsertStop(sorted, x) ==
  LET k == Cardinality({i \in 1..Len(sorted) : sorted[i].distance <= x.distance})
  IN  SubSeq(sorted, 1, k) \o <<x>> \o SubSeq(sorted, k + 1, Len(sorted))

\* Mutant: the stops are walked in the order the caller gave them.
SortStops_CallerOrder(s) == s

RECURSIVE SortStops(_)
SortStops(s) ==
  IF s = <<>> THEN <<>>
  ELSE InsertStop(SortStops(SubSeq(s, 1, Len(s) - 1)), s[Len(s)])

\* StopTime.aggregate([{$match: {stop_id: {$in: stopIds}}},
\*                     {$group: {_id: "$stop_id", trip_ids: {$addToSet: "$trip_id"}}}])
StopTimeAggregate(stopIds) ==
  {[_id |-> s, trip_ids |-> {d.trip_id : d \in {e \in StopTime : e.stop_id = s}}] :
     s \in {d.stop_id : d \in {e \in StopTime : e.stop_id \in stopIds}}}

\* stopTripsMap.set(stop._id, stop.trip_ids) for every group
BuildStopTripsMap(allStopTrips) ==
  [s \in {g._id : g \in allStopTrips} |->
     (CHOOSE g \in allStopTrips : g._id = s).trip_ids]

\* [...new Set(allStopTrips.flatMap(stop => stop.trip_ids))]
AllTripIds(allStopTrips) == UNION {g.trip_ids : g \in allStopTrips}

\* $lookup from routes + $unwind (preserveNullAndEmptyArrays): the route
\* document of a trip, <<>> when no route document has its route_id.
RouteInfo(rid) ==
  IF \E r \in Route : r.route_id = rid
  THEN <<CHOOSE r \in Route : r.route_id = rid>>
  ELSE <<>>

\* Trip.aggregate([{$match: {trip_id: {$in: tripIds}}}, $lookup, $unwind,
\*                 {$group: {_id: "$route_id", route_info: {$first}, trip_ids: {$addToSet}}}])
TripAggregate(tripIds) ==
  LET matched == {t \in Trip : t.trip_id \in tripIds}
  IN  {[_id |-> rid, route_info |-> RouteInfo(rid),
        trip_ids |-> {t.trip_id : t \in {m \in matched : m.route_id = rid}}] :
         rid \in {t.route_id : t \in matched}}

\* allRoutes.forEach(route => route.trip_ids.forEach(tripId =>
\*   tripRouteMap.set(tripId, route._id)))
BuildTripRouteMap(routes) ==
  [t \in UNION {r.trip_ids : r \in routes} |->
     (CHOOSE r \in routes : t \in r.trip_ids)._id]

\* Mutant: a stop without an entry is given the trips of every stop.
StopTripIds_AllTrips(map, stopId) ==
  IF stopId \in DOMAIN map THEN map[stopId] ELSE UNION {map[s] : s \in DOMAIN map}

\* stopTripsMap.get(stop.stop_id) || []
StopTripIds(map, stopId) == IF stopId \in DOMAIN map THEN map[stopId] ELSE {}

\* const routeId = tripRouteMap.get(tripId); if (routeId) {...}: a trip
\* without an entry and a trip whose route id is the empty string are skipped.
Resolved(trm, tripId) == tripId \in DOMAIN trm /\ trm[tripId] # ""

\* routeCounts: route id -> number of the stop's trips of that route
RouteCounts(trm, tripIds) ==
  LET ok == {t \in tripIds : Resolved(trm, t)}
  IN  [rid \in {trm[t] : t \in ok} |-> Cardinality({t \in ok : trm[t] = rid})]

\* route?.route_info?.route_short_name || routeId
RouteShortName(routes, routeId) ==
  LET found == {r \in routes : r._id = routeId}
      info == IF found = {} THEN <<>> ELSE (CHOOSE r \in found : TRUE).route_info
  IN  IF info # <<>> /\ info[1].route_short_name # ""
      THEN info[1].route_short_name
      ELSE routeId

\* Mutant: Math.floor(tripCount / 7)
DailyDepartures_Floor(tripCount) == tripCount \div DaysPerWeek

\* Math.round(tripCount / 7): Math.round(x) is floor(x + 1/2)
DailyDepartures(tripCount) == (2 * tripCount + DaysPerWeek) \div (2 * DaysPerWeek)

\* Map.prototype.set: a present key keeps its place and takes the new value,
\* a new key is appended.
MapSet(m, k, v) ==
  IF \E i \in 1..Len(m) : m[i].route = k
  THEN [i \in 1..Len(m) |-> IF m[i].route = k THEN [route |-> k, departures |-> v]
                                               ELSE m[i]]
  ELSE Append(m, [route |-> k, departures |-> v])

\* for (const [routeId, tripCount] of routeCounts) {...}, the routes taken in
\* the order ord; the value is the pair <<routeDepartures, processedRoutes>>.
RECURSIVE ProcessRoutes(_, _, _, _, _)
ProcessRoutes(ord, counts, routes, rd, pr) ==
  IF ord = <<>> THEN <<rd, pr>>
  ELSE LET routeId == Head(ord)
           routeShortName == RouteShortName(routes, routeId)
       IN  IF routeId \notin pr
           THEN ProcessRoutes(Tail(ord), counts, routes,
                              MapSet(rd, routeShortName, DailyDepartures(counts[routeId])),
                              pr \cup {routeId})
           ELSE ProcessRoutes(Tail(ord), counts, routes, rd, pr)

\* Mutant: the routes are returned in the order of the map, unsorted.
SortRoutes_Unsorted(s) == s

\* routes.sort((a, b) => b.departures - a.departures), stable
InsertRoute(sorted, x) ==
  LET k == Cardinality({i \in 1..Len(sorted) : sorted[i].departures >= x.departures})
  IN  SubSeq(sorted, 1, k) \o <<x>> \o SubSeq(sorted, k + 1, Len(sorted))

RECURSIVE SortRoutes(_)
SortRoutes(s) ==
  IF s = <<>> THEN <<>>
  ELSE InsertRoute(SortRoutes(SubSeq(s, 1, Len(s) - 1)), s[Len(s)])

\* Mutant: the reduce adds 1 for every route instead of its departures.
TotalDepartures_CountsRoutes(routes) == Len(routes)

\* routes.reduce((sum, route) => sum + route.departures, 0)
RECURSIVE TotalDepartures(_)
TotalDepartures(routes) ==
  IF routes = <<>> THEN 0
  ELSE routes[1].departures + TotalDepartures(Tail(routes))

\* A text is the sequence of its pieces: "," and "\n" are pieces of their
\* own, any other piece holds neither. A display name is written as it is
\* stored, so a name that holds a comma contributes a "," piece.
NameText(name) ==
  CASE name = "" -> <<>>
    [] name = "7,7A" -> <<"7", ",", "7A">>
    [] OTHER -> <<name>>

\* `${r.route},${r.departures}`
CsvRow(r) == NameText(r.route) \o <<",", ToString(r.departures)>>

\* routes.map(r => ...).join('\n')
RECURSIVE JoinLines(_)
JoinLines(rows) ==
  IF rows = <<>> THEN <<>>
  ELSE IF Len(rows) = 1 THEN rows[1]
  ELSE rows[1] \o <<"\n">> \o JoinLines(Tail(rows))

\* const csvHeader = 'route,departures\n'
CsvHeader == <<"route", ",", "departures", "\n">>

\* csvHeader + csvRows
Csv(routes) == CsvHeader \o JoinLines([i \in 1..Len(routes) |-> CsvRow(routes[i])])

\* The RoutesResponse built from the departures map.
RoutesResponse(rd) ==
  LET routes == SortRoutes(rd)
  IN  [routes |-> routes,
       totalRoutes |-> Len(routes),
       totalDepartures |-> TotalDepartures(routes),
       csv |-> Csv(routes)]

\* { routes: [], totalRoutes: 0, totalDepartures: 0, csv: 'route,departures\n' }
EmptyResponse ==
  [routes |-> <<>>, totalRoutes |-> 0, totalDepartures |-> 0,
   csv |-> <<"route", ",", "departures", "\n">>]

\* ---------------------------------------------------- initial states
\* The trips a stop may have of one route: none, a few, many.
CountChoices(s, r) ==
  CASE s = "s3" -> {0, 3}
    [] s = "s1" /\ r = "r2" -> {0, 4}
    [] s = "s2" /\ r = "r1" -> {0, MaxTrips}
    [] OTHER -> {0, 4, MaxTrips}

\* stop_times: cnt[s][r] trips of route r call at stop s; the first of them
\* calls twice (a loop); with an orphan, one unresolvable trip calls at s1.
StopTimeOf(cnt, orphan) ==
  UNION {{[trip_id |-> <<r, k>>, stop_id |-> s, stop_sequence |-> 1] : k \in 1..cnt[s][r]}
           \cup {[trip_id |-> <<r, k>>, stop_id |-> s, stop_sequence |-> 2] :
                   k \in 1..Min(cnt[s][r], 1)} : s \in StopIds, r \in RouteIds}
    \cup (IF orphan = "none" THEN {}
          ELSE {[trip_id |-> <<"u", 1>>, stop_id |-> "s1", stop_sequence |-> 1]})

\* trips: trip_id is unique; the orphan trip has no document or an empty route_id.
TripOf(orphan) ==
  {[trip_id |-> <<r, k>>, route_id |-> r] : r \in RouteIds, k \in 1..(MaxTrips + 1)}
    \cup (IF orphan = "emptyRoute" THEN {[trip_id |-> <<"u", 1>>, route_id |-> ""]} ELSE {})

\* routes: route_id is unique, route_short_name is optional and not unique;
\* a route of the trips may have no document.
RouteChoices ==
  {d1 \cup d2 :
     d1 \in {{}, {[route_id |-> "r1", route_short_name |-> "145"]}},
     d2 \in {{[route_id |-> "r2", route_short_name |-> n]} : n \in {"145", "17"}}}
    \cup {{[route_id |-> "r1", route_short_name |-> ""],
           [route_id |-> "r2", route_short_name |-> "17"]},
          {[route_id |-> "r1", route_short_name |-> "145"],
           [route_id |-> "r2", route_short_name |-> "7,7A"]}}

\* The distances (hundredths of a metre) the caller gives the stops.
\* 50 m, 200 m and 900 m; or two stops at 200 m and the third at 50 m.
DistanceProfiles ==
  {[s \in StopIds |-> CASE s = "s1" -> 5000 [] s = "s2" -> 20000 [] OTHER -> 90000],
   [s \in StopIds |-> CASE s = "s1" -> 20000 [] s = "s2" -> 20000 [] OTHER -> 5000]}

StopLists == UNION {SeqsNoRep(StopIds, n) : n \in 0..Cardinality(StopIds)}

BodyChoices ==
  {[isArray |-> FALSE, stops |-> <<>>]} \cup
  {[isArray |-> TRUE,
    stops |-> [i \in 1..Len(q) |-> [stop_id |-> q[i], distance |-> prof[q[i]]]]] :
      q \in StopLists, prof \in DistanceProfiles}

\* The stops collection: up to three stops, each at one of the points.
StopCollections ==
  UNION {{[i \in 1..Len(q) |->
             [stop_id |-> q[i], stop_lat |-> pts[i][1], stop_lon |-> pts[i][2]]] :
            pts \in [1..Len(q) -> Points]} :
          q \in {<<>>, <<"s1">>, <<"s1", "s2">>, <<"s1", "s2", "s3">>}}

\* Requests that pass the validation, and requests that differ from one of
\* them in a single parameter.
GoodRequests ==
  {[lat |-> Numeral(53), lng |-> Numeral(-6), maxDistance |-> d, limit |-> l,
    useManual |-> m] :
     d \in {Absent} \cup {Numeral(v) : v \in 0..MaxRadius},
     l \in {Absent} \cup {Numeral(v) : v \in 1..MaxLimit},
     m \in BOOLEAN}

BaseRequest ==
  [lat |-> Numeral(53), lng |-> Numeral(-6), maxDistance |-> Numeral(1),
   limit |-> Numeral(MaxLimit), useManual |-> TRUE]

EdgeRequests ==
  {[BaseRequest EXCEPT !.lat = v] :
     v \in {Absent, Text, Numeral(-91), Numeral(-90), Numeral(90), Numeral(91)}}
  \cup {[BaseRequest EXCEPT !.lng = v] :
     v \in {Absent, Text, Numeral(-181), Numeral(-180), Numeral(180), Numeral(181)}}
  \cup {[BaseRequest EXCEPT !.maxDistance = v] :
     v \in {Text, Numeral(-1), Numeral(10000), Numeral(10001)}}
  \cup {[BaseRequest EXCEPT !.limit = v] : v \in {Text, Numeral(0), Numeral(-1)}}

NoRequestParams ==
  [lat |-> Absent, lng |-> Absent, maxDistance |-> Absent, limit |-> Absent,
   useManual |-> FALSE]

\* const opts = { bufferCommands: false }: nothing about retries is set.
DbOptions == [bufferCommands |-> FALSE, retryReads |-> "unset", retryWrites |-> "unset",
              healthCheck |-> FALSE]

\* The db module with getConnectionOptions(): retryWrites: true, retryReads:
\* true, and a connect() that pings a cached connection before reusing it.
ConnectionOptions == [bufferCommands |-> FALSE, retryReads |-> "true", retryWrites |-> "true",
                      healthCheck |-> TRUE]

InitLocals ==
  /\ pc = "start"
  /\ nearbyStops = <<>>
  /\ sortedStops = <<>>
  /\ stopTripsMap = <<>>
  /\ allRoutes = {}
  /\ tripRouteMap = <<>>
  /\ walkIdx = 0
  /\ routeDepartures = <<>>
  /\ processedRoutes = {}
  /\ result = <<>>
  /\ status = 0
  /\ nConnect = 0
  /\ nQuery = 0
  /\ failed = FALSE
  /\ first = <<>>
  /\ stopTripIds = {}
  /\ proc = <<>>
  /\ nSchedule = 0

\* A POST /api/get_nearby_routes request against some schedule data.
InitAggregator ==
  /\ InitLocals
  /\ opts = DbOptions
  /\ listing = <<>>
  /\ db = <<>>
  /\ dropdown = <<>>
  /\ request = [method |-> "POST", path |-> "get_nearby_routes"] @@ NoRequestParams
  /\ body \in BodyChoices
  /\ cached = FALSE
  /\ Stop = <<>>
  /\ \E cnt \in {c \in [StopIds -> [RouteIds -> {0, 3, 4, MaxTrips}]] :
                    \A s \in StopIds, r \in RouteIds : c[s][r] \in CountChoices(s, r)},
        orphan \in {"none", "noTrip", "emptyRoute"} :
        /\ StopTime = StopTimeOf(cnt, orphan)
        /\ Trip = TripOf(orphan)
  /\ Route \in RouteChoices

\* A GET /api/get_nearby_stops request against some stops collection.
InitLocator ==
  /\ InitLocals
  /\ opts = DbOptions
  /\ listing = <<>>
  /\ db = <<>>
  /\ dropdown = <<>>
  /\ \E q \in GoodRequests \cup EdgeRequests :
        request = [method |-> "GET", path |-> "get_nearby_stops"] @@ q
  /\ body = [isArray |-> FALSE, stops |-> <<>>]
  /\ cached \in BOOLEAN
  /\ Stop \in StopCollections
  /\ StopTime = {}
  /\ Trip = {}
  /\ Route = {}

\* Collections for the by-coordinates aggregation: none, one stop of the box
\* that is outside the radius, and three stops whose natural order is or is
\* not their order of distance.
RoutesGetCollections ==
  {<<>>,
   <<[stop_id |-> "s1", stop_lat |-> 1001, stop_lon |-> 0]>>,
   <<[stop_id |-> "s1", stop_lat |-> 996, stop_lon |-> 0],
     [stop_id |-> "s2", stop_lat |-> 600, stop_lon |-> 800],
     [stop_id |-> "s3", stop_lat |-> 1995, stop_lon |-> 0]>>,
   <<[stop_id |-> "s1", stop_lat |-> 1995, stop_lon |-> 0],
     [stop_id |-> "s2", stop_lat |-> 0, stop_lon |-> 0],
     [stop_id |-> "s3", stop_lat |-> 800, stop_lon |-> 800]>>}

RoutesGetCounts ==
  {c \in [StopIds -> [RouteIds -> {0, 3, 4, MaxTrips}]] :
     /\ c["s1"]["r1"] \in {0, MaxTrips} /\ c["s1"]["r2"] \in {0, 4}
     /\ c["s2"]["r1"] \in {0, MaxTrips} /\ c["s2"]["r2"] = 4
     /\ c["s3"]["r1"] = 0 /\ c["s3"]["r2"] = 3}

RoutesGetRequests ==
  {[lat |-> Numeral(53), lng |-> Numeral(-6), maxDistance |-> Numeral(d), limit |-> l,
    useManual |-> m] :
     d \in {1, MaxRadius}, l \in {Absent, Numeral(1), Numeral(MaxLimit)}, m \in BOOLEAN}
  \cup {[BaseRequest EXCEPT !.lat = Absent],
        [BaseRequest EXCEPT !.maxDistance = Text, !.useManual = FALSE],
        [BaseRequest EXCEPT !.limit = Numeral(0)]}

\* A GET /api/get_nearby_routes request against stops and schedule data.
InitRoutesGet ==
  /\ InitLocals
  /\ opts = DbOptions
  /\ listing = <<>>
  /\ db = <<>>
  /\ dropdown = <<>>
  /\ \E q \in RoutesGetRequests :
        request = [method |-> "GET", path |-> "get_nearby_routes"] @@ q
  /\ body = [isArray |-> FALSE, stops |-> <<>>]
  /\ cached = FALSE
  /\ Stop \in RoutesGetCollections
  /\ \E cnt \in RoutesGetCounts, orphan \in {"none", "emptyRoute"} :
        /\ StopTime = StopTimeOf(cnt, orphan)
        /\ Trip = TripOf(orphan)
  /\ Route \in RouteChoices

Init == InitLocator \/ InitAggregator \/ InitRoutesGet

\* ------------------------------------------------------------ db.ts
\* Mutant: the catch block returns an empty result instead of rethrowing.
Throw_ReturnsEmpty ==
  /\ pc' = "done"
  /\ status' = 200
  /\ result' = (IF request.method = "POST" THEN <<EmptyResponse>> ELSE <<>>)
  /\ nearbyStops' = (IF request.method = "GET" THEN << <<>> >> ELSE <<>>)

\* The catch block of the library function rethrows and the handler's catch
\* answers 500.
Throw ==
  /\ pc' = "done"
  /\ status' = 500
  /\ result' = <<>>
  /\ nearbyStops' = <<>>

\* await connect(): the cached connection is returned, or mongoose.connect
\* is awaited and resolves (cached.conn is set) or rejects (the error is
\* rethrown).
Connected(next) ==
  /\ nConnect' = nConnect + 1
  /\ UNCHANGED failed
  /\ cached' = TRUE
  /\ pc' = next

ConnectFails ==
  /\ ~cached
  /\ nConnect' = nConnect + 1
  /\ failed' = TRUE
  /\ UNCHANGED cached
  /\ Throw

\* A query is sent and rejects.
QueryFails ==
  /\ nQuery' = nQuery + 1
  /\ failed' = TRUE
  /\ Throw

\* --------------------------------- POST /api/get_nearby_routes
\* if (!stops || !Array.isArray(stops)) return 400
PostRoutes ==
  /\ pc = "start"
  /\ request.method = "POST"
  /\ IF body.isArray
     THEN pc' = "fs_connect" /\ UNCHANGED <<status>>
     ELSE pc' = "done" /\ status' = 400
  /\ UNCHANGED <<dataVars, aggVars, locVars, request, body, cached, result,
                 nConnect, nQuery, failed>>
  /\ UNCHANGED <<extVars, nSchedule>>

\* getNearbyStopTimesFromStops: await connect(); if (stops.length === 0) return {...}
FromStopsConnect ==
  /\ pc = "fs_connect"
  /\ \/ /\ Connected(IF Len(body.stops) = 0 THEN "done" ELSE "fs_stoptimes")
        /\ IF Len(body.stops) = 0
           THEN result' = <<EmptyResponse>> /\ status' = 200 /\ UNCHANGED sortedStops
           ELSE sortedStops' = SortStops(body.stops) /\ UNCHANGED <<result, status>>
        /\ UNCHANGED <<nearbyStops, nQuery>>
     \/ ConnectFails /\ UNCHANGED <<sortedStops, nQuery>>
  /\ UNCHANGED <<dataVars, Stop, request, body, stopTripsMap, allRoutes, tripRouteMap,
                 walkIdx, routeDepartures, processedRoutes>>
  /\ UNCHANGED <<extVars, nSchedule>>

\* const allStopTrips = await StopTime.aggregate([...]); stopTripsMap is built
FromStopsStopTimes ==
  /\ pc = "fs_stoptimes"
  /\ \/ /\ nQuery' = nQuery + 1
        /\ UNCHANGED failed
        /\ stopTripsMap' =
             BuildStopTripsMap(StopTimeAggregate({s.stop_id : s \in Range(sortedStops)}))
        /\ pc' = "fs_trips"
        /\ UNCHANGED <<result, status, nearbyStops>>
     \/ QueryFails /\ UNCHANGED stopTripsMap
  /\ UNCHANGED <<dataVars, Stop, request, body, cached, sortedStops, allRoutes,
                 tripRouteMap, walkIdx, routeDepartures, processedRoutes, nConnect>>
  /\ nSchedule' = nSchedule + 1
  /\ UNCHANGED extVars

\* const allRoutes = await Trip.aggregate([...]); tripRouteMap is built
FromStopsTrips ==
  /\ pc = "fs_trips"
  /\ \/ /\ nQuery' = nQuery + 1
        /\ UNCHANGED failed
        /\ allRoutes' = TripAggregate(UNION {stopTripsMap[s] : s \in DOMAIN stopTripsMap})
        /\ tripRouteMap' = BuildTripRouteMap(allRoutes')
        /\ walkIdx' = 1
        /\ pc' = "fs_walk"
        /\ UNCHANGED <<result, status, nearbyStops>>
     \/ QueryFails /\ UNCHANGED <<allRoutes, tripRouteMap, walkIdx>>
  /\ UNCHANGED <<dataVars, Stop, request, body, cached, sortedStops, stopTripsMap,
                 routeDepartures, processedRoutes, nConnect>>
  /\ nSchedule' = nSchedule + 1
  /\ UNCHANGED extVars

\* One iteration of for (const stop of sortedStops). The trip ids of a stop
\* come from $addToSet, whose order the store does not define, so the routes
\* of the stop may be met in any order.
FromStopsWalk ==
  /\ pc = "fs_walk"
  /\ walkIdx <= Len(sortedStops)
  /\ LET stop == sortedStops[walkIdx]
         routeCounts == RouteCounts(tripRouteMap, StopTripIds(stopTripsMap, stop.stop_id))
     IN  \E ord \in Orders(DOMAIN routeCounts) :
           LET done == ProcessRoutes(ord, routeCounts, allRoutes,
                                     routeDepartures, processedRoutes)
           IN  /\ routeDepartures' = done[1]
               /\ processedRoutes' = done[2]
  /\ walkIdx' = walkIdx + 1
  /\ UNCHANGED <<dataVars, locVars, request, body, cached, pc, sortedStops, stopTripsMap,
                 allRoutes, tripRouteMap, result, status, nConnect, nQuery, failed>>
  /\ UNCHANGED <<extVars, nSchedule>>

\* After the loop: the routes are listed, sorted and totalled, and the
\* handler answers 200.
FromStopsReturn ==
  /\ pc = "fs_walk"
  /\ walkIdx > Len(sortedStops)
  /\ result' = <<RoutesResponse(routeDepartures)>>
  /\ status' = 200
  /\ pc' = "done"
  /\ UNCHANGED <<dataVars, locVars, aggVars, request, body, cached, nConnect, nQuery, failed>>
  /\ UNCHANGED <<extVars, nSchedule>>

\* getNearbyStopTimes and getNearbyStopTimesManual with the stops found:
\* if (nearbyStops.length === 0) return {routes: [], ...}; otherwise the
\* loop over the stops starts.
StopsFound(list) ==
  IF list = <<>>
  THEN result' = <<EmptyResponse>> /\ status' = 200 /\ pc' = "done" /\ UNCHANGED walkIdx
  ELSE pc' = "ps_stoptimes" /\ walkIdx' = 1 /\ UNCHANGED <<result, status>>

\* ---------------------------------- GET /api/get_nearby_stops
\* The parameters are parsed and checked; a rejected request is answered 400,
\* an accepted one calls getNearbyStopsManual or getNearbyStops.
GetStops ==
  /\ pc = "start"
  /\ request.method = "GET"
  /\ request.path = "get_nearby_stops"
  /\ IF Rejected(ParsedLat, ParsedLng, ParsedMaxDistance, ParsedLimit)
     THEN pc' = "done" /\ status' = 400
     ELSE pc' = (IF request.useManual THEN "nm_connect" ELSE "ns_connect")
          /\ UNCHANGED status
  /\ UNCHANGED <<dataVars, aggVars, locVars, request, body, cached, result,
                 nConnect, nQuery, failed>>
  /\ UNCHANGED <<extVars, nSchedule>>

\* getNearbyStops: await connect()
NearbyConnect ==
  /\ pc = "ns_connect"
  /\ \/ Connected("ns_count") /\ UNCHANGED <<status, result, nearbyStops>>
     \/ ConnectFails
  /\ UNCHANGED <<dataVars, aggVars, Stop, request, body, nQuery>>
  /\ UNCHANGED <<extVars, nSchedule>>

\* Mutant: getNearbyStops answers [] after the count and never runs the
\* distance calculation.
NearbyCount_NeverDelegates ==
  /\ pc = "ns_count"
  /\ nQuery' = nQuery + 1
  /\ nearbyStops' = << <<>> >>
  /\ status' = 200
  /\ pc' = "done"
  /\ UNCHANGED <<dataVars, aggVars, Stop, request, body, cached, nConnect, result, failed>>
  /\ UNCHANGED <<extVars, nSchedule>>

\* const totalStops = await Stop.countDocuments(); if (totalStops === 0) return []
\* (the caller is the nearby-stops handler or getNearbyStopTimes)
NearbyCount ==
  /\ pc = "ns_count"
  /\ \/ /\ nQuery' = nQuery + 1
        /\ UNCHANGED failed
        /\ IF Len(Stop) = 0
           THEN /\ nearbyStops' = << <<>> >>
                /\ IF request.path = "get_nearby_stops"
                   THEN status' = 200 /\ pc' = "done" /\ UNCHANGED <<result, walkIdx>>
                   ELSE StopsFound(<<>>)
           ELSE pc' = "nm_connect" /\ UNCHANGED <<nearbyStops, status, result, walkIdx>>
     \/ QueryFails /\ UNCHANGED walkIdx
  /\ UNCHANGED <<dataVars, sortedStops, stopTripsMap, allRoutes, tripRouteMap,
                 routeDepartures, processedRoutes, Stop, request, body, cached, nConnect>>
  /\ UNCHANGED <<extVars, nSchedule>>

\* getNearbyStopsManual: await connect()
ManualConnect ==
  /\ pc = "nm_connect"
  /\ \/ Connected("nm_find") /\ UNCHANGED <<status, result, nearbyStops>>
     \/ ConnectFails
  /\ UNCHANGED <<dataVars, aggVars, Stop, request, body, nQuery>>
  /\ UNCHANGED <<extVars, nSchedule>>

\* const stops = await Stop.find({...}).limit(actualLimit); the distances are
\* computed, the stops filtered, sorted and cut to limit; the list goes to the
\* nearby-stops handler, which answers, or back to getNearbyStopTimes.
ManualFind ==
  /\ pc = "nm_find"
  /\ \/ /\ nQuery' = nQuery + 1
        /\ UNCHANGED failed
        /\ nearbyStops' = <<NearbyStopsManual(Stop, ParsedMaxDistance, ParsedLimit)>>
        /\ IF request.path = "get_nearby_stops"
           THEN status' = 200 /\ pc' = "done" /\ UNCHANGED <<result, walkIdx>>
           ELSE StopsFound(nearbyStops'[1])
     \/ QueryFails /\ UNCHANGED walkIdx
  /\ UNCHANGED <<dataVars, sortedStops, stopTripsMap, allRoutes, tripRouteMap,
                 routeDepartures, processedRoutes, Stop, request, body, cached, nConnect>>
  /\ UNCHANGED <<extVars, nSchedule>>

\* ---------------------------------- GET /api/get_nearby_routes
\* The parameters are parsed and checked as for nearby-stops; an accepted
\* request calls getNearbyStopTimesManual or getNearbyStopTimes.
GetRoutes ==
  /\ pc = "start"
  /\ request.method = "GET"
  /\ request.path = "get_nearby_routes"
  /\ IF Rejected(ParsedLat, ParsedLng, ParsedMaxDistance, ParsedLimit)
     THEN pc' = "done" /\ status' = 400
     ELSE pc' = (IF request.useManual THEN "stm_connect" ELSE "st_connect")
          /\ UNCHANGED status
  /\ UNCHANGED <<dataVars, aggVars, locVars, request, body, cached, result,
                 nConnect, nQuery, failed>>
  /\ UNCHANGED <<extVars, nSchedule>>

\* getNearbyStopTimes: await connect(); then getNearbyStops is called
StopTimesConnect ==
  /\ pc = "st_connect"
  /\ \/ Connected("ns_connect") /\ UNCHANGED <<status, result, nearbyStops>>
     \/ ConnectFails
  /\ UNCHANGED <<dataVars, aggVars, Stop, request, body, nQuery>>
  /\ UNCHANGED <<extVars, nSchedule>>

\* getNearbyStopTimesManual: await connect()
StopTimesManualConnect ==
  /\ pc = "stm_connect"
  /\ \/ Connected("stm_find") /\ UNCHANGED <<status, result, nearbyStops>>
     \/ ConnectFails
  /\ UNCHANGED <<dataVars, aggVars, Stop, request, body, nQuery>>
  /\ UNCHANGED <<extVars, nSchedule>>

\* Stop.find({...}).limit(limit * 10)
ManualFetchLimit(limit, n) == IF limit.nan THEN n ELSE limit.v * OverFetchFactor

\* getNearbyStopTimesManual: the stops of the box are fetched, filtered by
\* distance, sorted and cut to limit
StopTimesManualFind ==
  /\ pc = "stm_find"
  /\ \/ /\ nQuery' = nQuery + 1
        /\ UNCHANGED <<failed, nearbyStops>>
        /\ sortedStops' =
             Slice(SortNearby(FilterByDistance(
                     FindInBox(Stop, ParsedMaxDistance,
                               ManualFetchLimit(ParsedLimit, Len(Stop))),
                     ParsedMaxDistance)), ParsedLimit)
        /\ StopsFound(sortedStops')
     \/ QueryFails /\ UNCHANGED <<sortedStops, walkIdx>>
  /\ UNCHANGED <<dataVars, stopTripsMap, allRoutes, tripRouteMap, routeDepartures,
                 processedRoutes, Stop, request, body, cached, nConnect>>
  /\ UNCHANGED <<extVars, nSchedule>>

\* The list the loop walks: nearbyStops in getNearbyStopTimes, sortedStops in
\* getNearbyStopTimesManual.
WalkList == IF request.useManual THEN sortedStops ELSE nearbyStops[1]

\* Mutant: the $match stage is missing, every trip of the collection is taken.
StopTripsOf_NoMatch(stopId) == {e.trip_id : e \in StopTime}

\* StopTime.aggregate([{$match: {stop_id}}, {$group: {_id: "$trip_id"}}]) and
\* stopTrips.map(trip => trip._id)
StopTripsOf(stopId) == {e.trip_id : e \in {x \in StopTime : x.stop_id = stopId}}

\* for (const stop of ...): const stopTrips = await StopTime.aggregate([...]);
\* if (stopTripIds.length === 0) continue
StopTrips ==
  /\ pc = "ps_stoptimes"
  /\ walkIdx <= Len(WalkList)
  /\ \/ /\ nQuery' = nQuery + 1
        /\ UNCHANGED <<failed, result, status, nearbyStops>>
        /\ stopTripIds' = StopTripsOf(WalkList[walkIdx].stop_id)
        /\ IF stopTripIds' = {}
           THEN walkIdx' = walkIdx + 1 /\ UNCHANGED pc
           ELSE pc' = "ps_trips" /\ UNCHANGED walkIdx
     \/ /\ QueryFails
        /\ UNCHANGED <<stopTripIds, walkIdx>>
  /\ nSchedule' = nSchedule + 1
  /\ UNCHANGED <<dataVars, sortedStops, stopTripsMap, allRoutes, tripRouteMap,
                 routeDepartures, processedRoutes, Stop, request, body, cached, nConnect,
                 first, proc, opts, listing, db, dropdown>>

\* const stopRoutes = await Trip.aggregate([...]) with trip_count: {$sum: 1};
\* for (const route of stopRoutes) {...}. The order of the groups is not
\* defined by the store.
StopRoutes ==
  /\ pc = "ps_trips"
  /\ \/ /\ nQuery' = nQuery + 1
        /\ UNCHANGED <<failed, result, status, nearbyStops>>
        /\ LET stopRoutes == TripAggregate(stopTripIds)
               trip_count == [rid \in {g._id : g \in stopRoutes} |->
                                Cardinality((CHOOSE g \in stopRoutes : g._id = rid).trip_ids)]
           IN  \E ord \in Orders(DOMAIN trip_count) :
                 LET done == ProcessRoutes(ord, trip_count, stopRoutes,
                                           routeDepartures, processedRoutes)
                 IN  /\ routeDepartures' = done[1]
                     /\ processedRoutes' = done[2]
        /\ walkIdx' = walkIdx + 1
        /\ pc' = "ps_stoptimes"
     \/ QueryFails /\ UNCHANGED <<routeDepartures, processedRoutes, walkIdx>>
  /\ nSchedule' = nSchedule + 1
  /\ UNCHANGED <<dataVars, sortedStops, stopTripsMap, allRoutes, tripRouteMap,
                 Stop, request, body, cached, nConnect>>
  /\ UNCHANGED extVars

\* After the loop: the routes are listed, sorted and totalled, and the
\* handler answers 200.
StopTimesReturn ==
  /\ pc = "ps_stoptimes"
  /\ walkIdx > Len(WalkList)
  /\ result' = <<RoutesResponse(routeDepartures)>>
  /\ status' = 200
  /\ pc' = "done"
  /\ UNCHANGED <<dataVars, locVars, aggVars, request, body, cached, nConnect, nQuery, failed>>
  /\ UNCHANGED <<extVars, nSchedule>>

Next ==
  \/ GetRoutes
  \/ StopTimesConnect
  \/ StopTimesManualConnect
  \/ StopTimesManualFind
  \/ StopTrips
  \/ StopRoutes
  \/ StopTimesReturn
  \/ GetStops
  \/ NearbyConnect
  \/ NearbyCount
  \/ ManualConnect
  \/ ManualFind
  \/ PostRoutes
  \/ FromStopsConnect
  \/ FromStopsStopTimes
  \/ FromStopsTrips
  \/ FromStopsWalk
  \/ FromStopsReturn

Spec == Init /\ [][Next]_vars

\* ------------------------------ the Locator called again
\* GET /api/get_nearby_stops is requested again with the same lat, lng,
\* maxDistance and limit against the unchanged collection, with either
\* strategy; what the earlier call returned is kept for comparison. The
\* module state that survives a call is the cached connection of db.ts.
CallAgain ==
  /\ pc = "done"
  /\ request.method = "GET"
  /\ status = 200
  /\ nearbyStops # <<>>
  /\ first = <<>>
  /\ first' = <<[useManual |-> request.useManual, stops |-> nearbyStops[1]]>>
  /\ \E m \in BOOLEAN : request' = [request EXCEPT !.useManual = m]
  /\ pc' = "start"
  /\ nearbyStops' = <<>>
  /\ status' = 0
  /\ nConnect' = 0
  /\ nQuery' = 0
  /\ UNCHANGED <<dataVars, aggVars, Stop, body, cached, result, failed,
                 stopTripIds, proc, opts, listing, db, dropdown, nSchedule>>

NextTwice ==
  \/ GetStops
  \/ NearbyConnect
  \/ NearbyCount
  \/ ManualConnect
  \/ ManualFind
  \/ CallAgain

SpecTwice == InitLocator /\ [][NextTwice]_vars

\* ------------------------------ the store connection's retry options
\* A nearby-stops request served by getNearbyStopsManual over a connection
\* made by either db module.
InitDriver ==
  /\ InitLocals
  /\ listing = <<>>
  /\ db = <<>>
  /\ dropdown = <<>>
  /\ opts \in {DbOptions, ConnectionOptions}
  /\ \E q \in GoodRequests \cup EdgeRequests :
        request = [[method |-> "GET", path |-> "get_nearby_stops"] @@ q
                     EXCEPT !.useManual = TRUE]
  /\ body = [isArray |-> FALSE, stops |-> <<>>]
  /\ cached \in BOOLEAN
  /\ Stop \in StopCollections
  /\ StopTime = {}
  /\ Trip = {}
  /\ Route = {}

\* connect() with a cached connection whose health check is due and fails:
\* cached.conn = null; cached.promise = null; and a new connection is made.
HealthCheckFails ==
  /\ pc = "nm_connect"
  /\ opts.healthCheck
  /\ cached
  /\ cached' = FALSE
  /\ UNCHANGED <<dataVars, aggVars, locVars, request, body, pc, result, status,
                 nConnect, nQuery, failed, extVars, nSchedule>>

\* retryReads: true: the first attempt of Stop.find fails with a retryable
\* error and the driver sends the read again; getNearbyStopsManual is still
\* awaiting the query.
RetryRead ==
  /\ pc = "nm_find"
  /\ opts.retryReads = "true"
  /\ nQuery = 0
  /\ nQuery' = nQuery + 1
  /\ UNCHANGED <<dataVars, aggVars, locVars, request, body, cached, pc, result, status,
                 nConnect, failed, extVars, nSchedule>>

NextDriver ==
  \/ GetStops
  \/ ManualConnect
  \/ HealthCheckFails
  \/ RetryRead
  \/ ManualFind

SpecDriver == InitDriver /\ [][NextDriver]_vars

\* ------------------------------ concurrent aggregations
\* Two aggregation calls run at the same time on one Node.js event loop and
\* interleave at their awaits. Each call has the locals of its own
\* invocation; the collections and the cached connection are shared. A call
\* is batched (getNearbyStopTimesFromStops) or per stop (getNearbyStopTimes,
\* getNearbyStopTimesManual, with the stop list the Locator gave it).
Procs == {1, 2}

\* The locals of a call that has just been made.
NewCall(mode, stops) ==
  [mode |-> mode, stops |-> stops, pc |-> "connect", sortedStops |-> <<>>,
   stopTripsMap |-> <<>>, allRoutes |-> {}, tripRouteMap |-> <<>>, walkIdx |-> 0,
   stopTripIds |-> {}, routeDepartures |-> <<>>, processedRoutes |-> {},
   result |-> <<>>, status |-> 0]

\* What the concurrent calls leave alone: the data and the single request.
requestVars ==
  <<Stop, request, nearbyStops, StopTime, Trip, Route, pc, body, sortedStops,
    stopTripsMap, allRoutes, tripRouteMap, walkIdx, routeDepartures,
    processedRoutes, result, status, nConnect, nQuery, failed, first,
    stopTripIds, nSchedule, opts, listing, db, dropdown>>

\* Mutant: processedRoutes is one module-level Set that every call uses.
Claimed_ModuleLevel(p) == UNION {proc[q].processedRoutes : q \in Procs}

\* const processedRoutes = new Set<string>() inside the function: the set a
\* call consults is the one of its own invocation.
Claimed(p) == proc[p].processedRoutes

\* await connect(), then the empty check and the sort of the stops
ConcurrentConnect(p) ==
  /\ proc[p].pc = "connect"
  /\ \/ /\ cached' = TRUE
        /\ LET sorted == SortStops(proc[p].stops)
           IN  proc' = [proc EXCEPT ![p] =
                 IF sorted = <<>>
                 THEN [@ EXCEPT !.pc = "done", !.status = 200, !.result = <<EmptyResponse>>]
                 ELSE [@ EXCEPT !.pc = (IF proc[p].mode = "batched" THEN "fs_stoptimes"
                                                              ELSE "ps_stoptimes"),
                                !.sortedStops = sorted, !.walkIdx = 1]]
     \/ /\ ~cached
        /\ UNCHANGED <<cached, requestVars>>
        /\ proc' = [proc EXCEPT ![p] = [@ EXCEPT !.pc = "done", !.status = 500]]
  /\ UNCHANGED requestVars

\* A schedule query of the call rejects: the call throws, the handler answers 500.
ConcurrentQueryFails(p) ==
  /\ \/ proc[p].pc \in {"fs_stoptimes", "fs_trips", "ps_trips"}
     \/ proc[p].pc = "ps_stoptimes" /\ proc[p].walkIdx <= Len(proc[p].sortedStops)
  /\ proc' = [proc EXCEPT ![p] = [@ EXCEPT !.pc = "done", !.status = 500]]
  /\ UNCHANGED <<cached, requestVars>>

\* batched: StopTime.aggregate over all stop ids
ConcurrentStopTimes(p) ==
  /\ proc[p].pc = "fs_stoptimes"
  /\ proc' = [proc EXCEPT ![p] =
        [@ EXCEPT !.pc = "fs_trips",
                  !.stopTripsMap = BuildStopTripsMap(
                     StopTimeAggregate({st.stop_id : st \in Range(proc[p].sortedStops)}))]]
  /\ UNCHANGED <<cached, requestVars>>

\* batched: Trip.aggregate over all trip ids
ConcurrentTrips(p) ==
  /\ proc[p].pc = "fs_trips"
  /\ LET routes == TripAggregate(UNION {proc[p].stopTripsMap[st] :
                                          st \in DOMAIN proc[p].stopTripsMap})
     IN  proc' = [proc EXCEPT ![p] =
           [@ EXCEPT !.pc = "fs_walk", !.allRoutes = routes,
                     !.tripRouteMap = BuildTripRouteMap(routes), !.walkIdx = 1]]
  /\ UNCHANGED <<cached, requestVars>>

\* batched: one iteration of for (const stop of sortedStops)
ConcurrentWalk(p) ==
  /\ proc[p].pc = "fs_walk"
  /\ proc[p].walkIdx <= Len(proc[p].sortedStops)
  /\ LET stop == proc[p].sortedStops[proc[p].walkIdx]
         routeCounts == RouteCounts(proc[p].tripRouteMap,
                                    StopTripIds(proc[p].stopTripsMap, stop.stop_id))
     IN  \E ord \in Orders(DOMAIN routeCounts) :
           LET done == ProcessRoutes(ord, routeCounts, proc[p].allRoutes,
                                     proc[p].routeDepartures, Claimed(p))
           IN  proc' = [proc EXCEPT ![p] =
                 [@ EXCEPT !.routeDepartures = done[1],
                           !.processedRoutes = @ \cup (done[2] \ Claimed(p)),
                           !.walkIdx = @ + 1]]
  /\ UNCHANGED <<cached, requestVars>>

\* per stop: StopTime.aggregate for the stop; a stop without trips is skipped
ConcurrentStopTrips(p) ==
  /\ proc[p].pc = "ps_stoptimes"
  /\ proc[p].walkIdx <= Len(proc[p].sortedStops)
  /\ LET ids == StopTripsOf(proc[p].sortedStops[proc[p].walkIdx].stop_id)
     IN  proc' = [proc EXCEPT ![p] =
           IF ids = {} THEN [@ EXCEPT !.walkIdx = @ + 1, !.stopTripIds = ids]
                       ELSE [@ EXCEPT !.pc = "ps_trips", !.stopTripIds = ids]]
  /\ UNCHANGED <<cached, requestVars>>

\* per stop: Trip.aggregate for the stop's trips and the loop over its routes
ConcurrentStopRoutes(p) ==
  /\ proc[p].pc = "ps_trips"
  /\ LET stopRoutes == TripAggregate(proc[p].stopTripIds)
         trip_count == [rid \in {g._id : g \in stopRoutes} |->
                          Cardinality((CHOOSE g \in stopRoutes : g._id = rid).trip_ids)]
     IN  \E ord \in Orders(DOMAIN trip_count) :
           LET done == ProcessRoutes(ord, trip_count, stopRoutes,
                                     proc[p].routeDepartures, Claimed(p))
           IN  proc' = [proc EXCEPT ![p] =
                 [@ EXCEPT !.routeDepartures = done[1],
                           !.processedRoutes = @ \cup (done[2] \ Claimed(p)),
                           !.walkIdx = @ + 1, !.pc = "ps_stoptimes"]]
  /\ UNCHANGED <<cached, requestVars>>

\* After the loop the call returns its result.
ConcurrentReturn(p) ==
  /\ proc[p].pc \in {"fs_walk", "ps_stoptimes"}
  /\ proc[p].walkIdx > Len(proc[p].sortedStops)
  /\ proc' = [proc EXCEPT ![p] =
        [@ EXCEPT !.pc = "done", !.status = 200,
                  !.result = <<RoutesResponse(proc[p].routeDepartures)>>]]
  /\ UNCHANGED <<cached, requestVars>>

\* The stop lists of the concurrent calls.
ConcurrentStopLists ==
  {<<>>,
   <<[stop_id |-> "s1", distance |-> 5000], [stop_id |-> "s2", distance |-> 20000]>>,
   <<[stop_id |-> "s2", distance |-> 5000], [stop_id |-> "s3", distance |-> 20000]>>}

InitConcurrent ==
  /\ request = [method |-> "POST", path |-> "get_nearby_routes"] @@ NoRequestParams
  /\ body = [isArray |-> FALSE, stops |-> <<>>]
  /\ pc = "done"
  /\ nearbyStops = <<>>
  /\ sortedStops = <<>>
  /\ stopTripsMap = <<>>
  /\ allRoutes = {}
  /\ tripRouteMap = <<>>
  /\ walkIdx = 0
  /\ routeDepartures = <<>>
  /\ processedRoutes = {}
  /\ result = <<>>
  /\ status = 0
  /\ nConnect = 0
  /\ nQuery = 0
  /\ failed = FALSE
  /\ first = <<>>
  /\ stopTripIds = {}
  /\ nSchedule = 0
  /\ opts = DbOptions
  /\ listing = <<>>
  /\ db = <<>>
  /\ dropdown = <<>>
  /\ Stop = <<>>
  /\ cached = FALSE
  /\ \E cnt \in RoutesGetCounts :
        /\ StopTime = StopTimeOf(cnt, "none")
        /\ Trip = TripOf("none")
  /\ Route \in RouteChoices
  /\ proc \in [Procs -> {NewCall(m, st) : m \in {"batched", "perStop"},
                                          st \in ConcurrentStopLists}]

NextConcurrent ==
  \E p \in Procs :
    \/ ConcurrentConnect(p)
    \/ ConcurrentQueryFails(p)
    \/ ConcurrentStopTimes(p)
    \/ ConcurrentTrips(p)
    \/ ConcurrentWalk(p)
    \/ ConcurrentStopTrips(p)
    \/ ConcurrentStopRoutes(p)
    \/ ConcurrentReturn(p)

SpecConcurrent == InitConcurrent /\ [][NextConcurrent]_vars

\* ------------------------------------------- POST /api/listings
\* fetchWithRetry(url, init, attempts = 3, baseDelayMs = 1000)
Attempts == 3

BaseDelayMs == 1000

\* JSON texts are told apart by what JSON.parse makes of them: two spellings
\* of one object, an array, and a text that is not JSON.
JsonParse(text) ==
  CASE text \in {"{\"n\":1}", "{ \"n\": 1 }"} -> <<"object n 1">>
    [] text = "[]" -> <<"empty array">>
    [] OTHER -> <<>>

\* JSON.stringify(value)
JsonStringify(value) ==
  CASE value = "object n 1" -> "{\"n\":1}"
    [] value = "empty array" -> "[]"

\* The bodies a client posts.
ListingBodies == {"{ \"n\": 1 }", "[]", "n=1"}

\* What one fetch of the search service can come to: a response with a
\* status and a body, or a rejected promise with the message of its error.
UpstreamOutcomes ==
  {[kind |-> "response", status |-> st, body |-> b, message |-> ""] :
     st \in {200, 201}, b \in {"{\"n\":1}", "{ \"n\": 1 }", "<html>"}}
  \cup {[kind |-> "response", status |-> st, body |-> "{\"n\":1}", message |-> ""] :
          st \in {404, 500}}
  \cup {[kind |-> "throws", status |-> 0, body |-> "", message |-> m] :
          m \in {"fetch failed", ""}}

\* Mutant: every response counts as OK.
Ok_Always(res) == res.kind = "response"

\* res.ok
Ok(res) == res.kind = "response" /\ res.status >= 200 /\ res.status <= 299

\* The error an attempt ends with: the thrown one, or Bad status <n>.
AttemptError(res) ==
  IF res.kind = "throws" THEN res.message ELSE "Bad status " \o ToString(res.status)

\* { error: err?.message || "unknown error" }
ErrorBody(message) == IF message = "" THEN "unknown error" ELSE message

\* What the listings proxy leaves alone.
listingRest ==
  <<Stop, request, nearbyStops, StopTime, Trip, Route, cached, pc, body, sortedStops,
    stopTripsMap, allRoutes, tripRouteMap, walkIdx, routeDepartures, processedRoutes,
    result, status, nConnect, nQuery, failed, first, stopTripIds, proc, opts,
    nSchedule, db, dropdown>>

\* return new Response(..., { status: 500 }) from the catch block
ListingsAnswer500(message) ==
  [listing EXCEPT !.pc = "done", !.status = 500, !.out = ErrorBody(message)]

InitListings ==
  /\ listing \in {[pc |-> "start", body |-> b, sent |-> "", i |-> 0, calls |-> 0,
                    slept |-> 0, lastErr |-> <<>>, res |-> <<>>, status |-> 0,
                    out |-> ""] : b \in ListingBodies}
  /\ db = <<>>
  /\ dropdown = <<>>
  /\ opts = DbOptions
  /\ pc = "done"
  /\ nearbyStops = <<>>
  /\ sortedStops = <<>>
  /\ stopTripsMap = <<>>
  /\ allRoutes = {}
  /\ tripRouteMap = <<>>
  /\ walkIdx = 0
  /\ routeDepartures = <<>>
  /\ processedRoutes = {}
  /\ result = <<>>
  /\ status = 0
  /\ nConnect = 0
  /\ nQuery = 0
  /\ failed = FALSE
  /\ first = <<>>
  /\ stopTripIds = {}
  /\ proc = <<>>
  /\ nSchedule = 0
  /\ request = [method |-> "POST", path |-> "listings"] @@ NoRequestParams
  /\ body = [isArray |-> FALSE, stops |-> <<>>]
  /\ cached = FALSE
  /\ Stop = <<>>
  /\ StopTime = {}
  /\ Trip = {}
  /\ Route = {}

\* const body = await req.json(); a body that is not JSON throws and the
\* catch block answers 500 before any fetch.
ListingsPost ==
  /\ listing.pc = "start"
  /\ listing' = (IF JsonParse(listing.body) = <<>>
                 THEN ListingsAnswer500("Unexpected token")
                 ELSE [listing EXCEPT !.pc = "fetch",
                                      !.sent = JsonStringify(JsonParse(listing.body)[1])])
  /\ UNCHANGED listingRest

\* One pass of the for loop: await fetch(url, init); an OK response is
\* returned to POST; otherwise lastErr is set and, unless this was the last
\* attempt, the delay is awaited. After the last attempt lastErr is thrown
\* and the catch block of POST answers 500.
ListingsFetch ==
  /\ listing.pc = "fetch"
  /\ listing.i < Attempts
  /\ \E res \in UpstreamOutcomes :
       listing' =
         IF Ok(res)
         THEN [listing EXCEPT !.pc = "parse", !.calls = @ + 1, !.res = <<res>>]
         ELSE IF listing.i < Attempts - 1
         THEN [listing EXCEPT !.pc = "sleep", !.calls = @ + 1,
                              !.lastErr = <<AttemptError(res)>>]
         ELSE [ListingsAnswer500(AttemptError(res))
                 EXCEPT !.calls = @ + 1, !.i = @ + 1,
                        !.lastErr = <<AttemptError(res)>>]
  /\ UNCHANGED listingRest

\* await new Promise((r) => setTimeout(r, baseDelayMs * Math.pow(2, i))); i++
ListingsDelay ==
  /\ listing.pc = "sleep"
  /\ listing' = [listing EXCEPT !.pc = "fetch", !.i = @ + 1,
                                !.slept = @ + BaseDelayMs * 2 ^ listing.i]
  /\ UNCHANGED listingRest

\* const data = await resp.json(); the data is answered with status 200; a
\* body that is not JSON throws and the catch block answers 500.
ListingsParse ==
  /\ listing.pc = "parse"
  /\ LET data == JsonParse(listing.res[1].body)
     IN  listing' = (IF data = <<>>
                     THEN ListingsAnswer500("Unexpected token")
                     ELSE [listing EXCEPT !.pc = "done", !.status = 200,
                                          !.out = JsonStringify(data[1])])
  /\ UNCHANGED listingRest

NextListings ==
  \/ ListingsPost
  \/ ListingsFetch
  \/ ListingsDelay
  \/ ListingsParse

\* Every awaited promise settles: fetch resolves or rejects, timers fire.
SpecListings == InitListings /\ [][NextListings]_vars /\ WF_vars(NextListings)

\* ------------------------------------- a collection larger than the over-fetch
\* A dense collection is written as runs: an entry stands for `copies`
\* documents, consecutive in natural order, of stops at the same coordinates.
DenseCollections ==
  UNION {{<<[stop_id |-> "s2", stop_lat |-> 996, stop_lon |-> 0, copies |-> c],
            [stop_id |-> "s1", stop_lat |-> p, stop_lon |-> 0, copies |-> 1]>>,
          <<[stop_id |-> "s1", stop_lat |-> p, stop_lon |-> 0, copies |-> 1],
            [stop_id |-> "s2", stop_lat |-> 996, stop_lon |-> 0, copies |-> c]>>} :
           c \in {1, OverFetchFloor - 1, OverFetchFloor, OverFetchFloor + 1},
           p \in {0, 600, 1995, 2500}}

\* Stop.find({...}).limit(actualLimit) on runs: the first actualLimit
\* documents of the box in natural order.
RECURSIVE FindInBoxDense(_, _, _)
FindInBoxDense(coll, maxDistance, actualLimit) ==
  IF coll = <<>> \/ actualLimit = 0 THEN <<>>
  ELSE IF InBox(Head(coll), maxDistance)
  THEN LET n == Min(Head(coll).copies, actualLimit)
       IN  <<[Head(coll) EXCEPT !.copies = n]>>
             \o FindInBoxDense(Tail(coll), maxDistance, actualLimit - n)
  ELSE FindInBoxDense(Tail(coll), maxDistance, actualLimit)

\* for (const stop of stops) { if (distance <= maxDistance) nearbyStops.push(...) }
RECURSIVE FilterByDistanceDense(_, _)
FilterByDistanceDense(found, maxDistance) ==
  IF found = <<>> THEN <<>>
  ELSE LET stop == Head(found)
           d2 == calculateDistance2(stop)
           rest == FilterByDistanceDense(Tail(found), maxDistance)
       IN  IF WithinRadius(d2, maxDistance)
           THEN <<[stop_id |-> stop.stop_id, stop_lat |-> stop.stop_lat,
                   stop_lon |-> stop.stop_lon, distance |-> RoundedDistance(d2),
                   copies |-> stop.copies]>> \o rest
           ELSE rest

\* .slice(0, limit) on runs, written out as documents
RECURSIVE SliceDense(_, _)
SliceDense(s, n) ==
  IF s = <<>> \/ n = 0 THEN <<>>
  ELSE LET k == Min(Head(s).copies, n)
       IN  [i \in 1..k |-> [stop_id |-> Head(s).stop_id, stop_lat |-> Head(s).stop_lat,
                            stop_lon |-> Head(s).stop_lon, distance |-> Head(s).distance]]
             \o SliceDense(Tail(s), n - k)

\* getNearbyStopsManual on a dense collection
NearbyStopsManualDense(coll, maxDistance, limit) ==
  LET stops == FindInBoxDense(coll, maxDistance, ActualLimit(limit, 0))
  IN  SliceDense(SortNearby(FilterByDistanceDense(stops, maxDistance)), limit.v)

InitDense ==
  /\ InitLocals
  /\ opts = DbOptions
  /\ listing = <<>>
  /\ db = <<>>
  /\ dropdown = <<>>
  /\ \E d \in 1..MaxRadius, l \in 1..MaxLimit :
        request = [method |-> "GET", path |-> "get_nearby_stops", lat |-> Numeral(53),
                   lng |-> Numeral(-6), maxDistance |-> Numeral(d), limit |-> Numeral(l),
                   useManual |-> TRUE]
  /\ body = [isArray |-> FALSE, stops |-> <<>>]
  /\ cached \in BOOLEAN
  /\ Stop \in DenseCollections
  /\ StopTime = {}
  /\ Trip = {}
  /\ Route = {}

\* const stops = await Stop.find({...}).limit(actualLimit) and the rest of
\* getNearbyStopsManual, on a dense collection
DenseFind ==
  /\ pc = "nm_find"
  /\ \/ /\ nQuery' = nQuery + 1
        /\ UNCHANGED failed
        /\ nearbyStops' = <<NearbyStopsManualDense(Stop, ParsedMaxDistance, ParsedLimit)>>
        /\ IF request.path = "get_nearby_stops"
           THEN status' = 200 /\ pc' = "done" /\ UNCHANGED <<result, walkIdx>>
           ELSE StopsFound(nearbyStops'[1])
     \/ QueryFails /\ UNCHANGED walkIdx
  /\ UNCHANGED <<dataVars, sortedStops, stopTripsMap, allRoutes, tripRouteMap,
                 routeDepartures, processedRoutes, Stop, request, body, cached, nConnect>>
  /\ UNCHANGED <<extVars, nSchedule>>

\* getNearbyStopTimesManual's own location of the stops on a dense
\* collection: Stop.find({...}).limit(limit * 10), filter, sort, slice
StopTimesManualDense(coll, maxDistance, limit) ==
  LET stops == FindInBoxDense(coll, maxDistance, ManualFetchLimit(limit, 0))
  IN  SliceDense(SortNearby(FilterByDistanceDense(stops, maxDistance)), limit.v)

DenseManualFind ==
  /\ pc = "stm_find"
  /\ \/ /\ nQuery' = nQuery + 1
        /\ UNCHANGED <<failed, nearbyStops>>
        /\ sortedStops' = StopTimesManualDense(Stop, ParsedMaxDistance, ParsedLimit)
        /\ StopsFound(sortedStops')
     \/ QueryFails /\ UNCHANGED <<sortedStops, walkIdx>>
  /\ UNCHANGED <<dataVars, stopTripsMap, allRoutes, tripRouteMap, routeDepartures,
                 processedRoutes, Stop, request, body, cached, nConnect>>
  /\ UNCHANGED <<extVars, nSchedule>>

\* Collections with about ten times the limit of stops in the box.
DenseRoutesCollections ==
  UNION {{<<[stop_id |-> "s2", stop_lat |-> 996, stop_lon |-> 0, copies |-> c],
            [stop_id |-> "s1", stop_lat |-> 0, stop_lon |-> 0, copies |-> 1]>>,
          <<[stop_id |-> "s1", stop_lat |-> 0, stop_lon |-> 0, copies |-> 1],
            [stop_id |-> "s2", stop_lat |-> 996, stop_lon |-> 0, copies |-> c]>>} :
           c \in {1, OverFetchFactor - 1, OverFetchFactor, MaxLimit * OverFetchFactor}}

\* A GET /api/get_nearby_routes request against a dense stops collection.
InitDenseRoutes ==
  /\ InitLocals
  /\ opts = DbOptions
  /\ listing = <<>>
  /\ db = <<>>
  /\ dropdown = <<>>
  /\ \E l \in 1..MaxLimit, m \in BOOLEAN :
        request = [method |-> "GET", path |-> "get_nearby_routes", lat |-> Numeral(53),
                   lng |-> Numeral(-6), maxDistance |-> Numeral(1), limit |-> Numeral(l),
                   useManual |-> m]
  /\ body = [isArray |-> FALSE, stops |-> <<>>]
  /\ cached = FALSE
  /\ Stop \in DenseRoutesCollections
  /\ \E cnt \in RoutesGetCounts :
        /\ StopTime = StopTimeOf(cnt, "none")
        /\ Trip = TripOf("none")
  /\ Route \in RouteChoices

NextDense ==
  \/ GetStops
  \/ GetRoutes
  \/ StopTimesConnect
  \/ NearbyConnect
  \/ NearbyCount
  \/ ManualConnect
  \/ DenseFind
  \/ StopTimesManualConnect
  \/ DenseManualFind
  \/ StopTrips
  \/ StopRoutes
  \/ StopTimesReturn

InitDenseAny == InitDense \/ InitDenseRoutes

SpecDense == InitDenseAny /\ [][NextDense]_vars

\* ------------------------------------------- every trip count of a route
\* A POST /api/get_nearby_routes request for one stop at which n trips of
\* route r1 call, for every n up to MaxTrips, and in some cases two trips
\* of route r2.
InitCounts ==
  /\ InitLocals
  /\ opts = DbOptions
  /\ listing = <<>>
  /\ db = <<>>
  /\ dropdown = <<>>
  /\ request = [method |-> "POST", path |-> "get_nearby_routes"] @@ NoRequestParams
  /\ body = [isArray |-> TRUE, stops |-> <<[stop_id |-> "s1", distance |-> 5000]>>]
  /\ cached \in BOOLEAN
  /\ Stop = <<>>
  /\ \E n \in 0..MaxTrips, m \in {0, 2} :
        /\ StopTime = StopTimeOf([s \in StopIds |->
                                    [r \in RouteIds |->
                                       IF s # "s1" THEN 0 ELSE IF r = "r1" THEN n ELSE m]],
                                 "none")
        /\ Trip = TripOf("none")
  /\ Route \in RouteChoices

NextCounts ==
  \/ PostRoutes
  \/ FromStopsConnect
  \/ FromStopsStopTimes
  \/ FromStopsTrips
  \/ FromStopsWalk
  \/ FromStopsReturn

SpecCounts == InitCounts /\ [][NextCounts]_vars

\* ------------------------------------- connect(): concurrent callers
\* The requests that may call connect() while another call is in flight.
Callers == {1, 2, 3}

\* Bounds: mongoose.connect invocations, and connect() calls of one caller.
MaxDials == 3

MaxCalls == 2

\* What a connect() call leaves alone.
connectRest ==
  <<Stop, request, nearbyStops, StopTime, Trip, Route, cached, pc, body, sortedStops,
    stopTripsMap, allRoutes, tripRouteMap, walkIdx, routeDepartures, processedRoutes,
    result, status, nConnect, nQuery, failed, first, stopTripIds, proc, opts,
    nSchedule, listing, dropdown>>

\* db.conn / db.promise are 0 for null, else the number of the
\* mongoose.connect invocation whose promise (or whose connection) is cached;
\* db.attempts[k] is the state of invocation k; db.due says that more than
\* 30000 ms passed since cached.lastHealthCheck.
Pending(d) == {k \in 1..Len(d.attempts) : d.attempts[k] = "pending"}

\* cached.conn = await cached.promise of caller p, once the promise it awaits
\* has settled: the connection is cached and returned, or the catch block
\* clears cached.promise and rethrows.
Resume(d, p, k) ==
  IF d.attempts[k] = "resolved"
  THEN [d EXCEPT !.conn = k, !.due = FALSE,
                 !.callers[p].pc = "returned", !.callers[p].got = k]
  ELSE [d EXCEPT !.promise = 0, !.errorCount = @ + 1,
                 !.callers[p].pc = "threw", !.callers[p].got = 0]

\* Mutant: every caller that finds no connection invokes mongoose.connect.
Dial_NoPromiseCheck(d, p) ==
  LET k == Len(d.attempts) + 1
  IN [d EXCEPT !.attempts = Append(@, "pending"),
               !.connectionCount = @ + 1,
               !.promise = k,
               !.callers[p].pc = "await", !.callers[p].awaiting = k]

\* if (!cached.promise) { cached.connectionCount++; cached.promise =
\* mongoose.connect(...) }; then the caller awaits cached.promise.
Dial(d, p) ==
  IF d.promise = 0
  THEN LET k == Len(d.attempts) + 1
       IN [d EXCEPT !.attempts = Append(@, "pending"),
                    !.connectionCount = @ + 1,
                    !.promise = k,
                    !.callers[p].pc = "await", !.callers[p].awaiting = k]
  ELSE IF d.attempts[d.promise] = "pending"
       THEN [d EXCEPT !.callers[p].pc = "await", !.callers[p].awaiting = d.promise]
       ELSE Resume(d, p, d.promise)

\* Whether Dial would invoke mongoose.connect within the bound.
CanDial(d) == d.promise # 0 \/ Len(d.attempts) < MaxDials

\* connect() up to its first await: a cached connection is returned at once
\* (db.ts), or after a ping when the last health check is older than 30 s.
ConnectCall(p) ==
  /\ db.callers[p].pc \in {"idle", "returned", "threw"}
  /\ db.callers[p].calls < MaxCalls
  /\ LET d == [db EXCEPT !.callers[p].calls = @ + 1]
     IN IF db.conn # 0
        THEN IF opts.healthCheck /\ db.due
             THEN db' = [d EXCEPT !.callers[p].pc = "health"]
             ELSE db' = [d EXCEPT !.callers[p].pc = "returned",
                                  !.callers[p].got = db.conn]
        ELSE CanDial(db) /\ db' = Dial(d, p)
  /\ UNCHANGED connectRest

\* const isHealthy = await isConnectionHealthy(cached.conn) has answered for
\* caller p: cached.lastHealthCheck = now, then the connection is returned
\* or both cached.conn and cached.promise are cleared and the caller goes on
\* to the connection attempt.
HealthChecked(p) ==
  /\ db.callers[p].pc = "health"
  /\ \E isHealthy \in BOOLEAN :
       LET d == [db EXCEPT !.due = FALSE]
       IN IF isHealthy
          THEN db' = [d EXCEPT !.callers[p].pc = "returned",
                               !.callers[p].got = db.conn]
          ELSE /\ Len(db.attempts) < MaxDials
               /\ db' = Dial([d EXCEPT !.conn = 0, !.promise = 0], p)
  /\ UNCHANGED connectRest

\* The callers awaiting invocation k, resumed one after the other in the
\* same run of the microtask queue.
RECURSIVE ResumeAll(_, _, _)
ResumeAll(d, k, waiting) ==
  IF waiting = {} THEN d
  ELSE LET p == CHOOSE q \in waiting : TRUE
       IN ResumeAll(Resume(d, p, k), k, waiting \ {p})

\* mongoose.connect invocation k resolves or rejects; every caller awaiting
\* its promise resumes before any other code runs.
Settle(k) ==
  /\ k \in Pending(db)
  /\ \E outcome \in {"resolved", "rejected"} :
       db' = ResumeAll([db EXCEPT !.attempts[k] = outcome], k,
                       {p \in Callers : db.callers[p].pc = "await"
                                         /\ db.callers[p].awaiting = k})
  /\ UNCHANGED connectRest

\* More than 30 seconds pass since the last health check.
TimePasses ==
  /\ opts.healthCheck
  /\ ~db.due
  /\ db.conn # 0
  /\ db' = [db EXCEPT !.due = TRUE]
  /\ UNCHANGED connectRest

\* let cached = global.mongoose = { conn: null, promise: null } (and the
\* counters of the health-checked module), no connect() call made yet.
InitConnect ==
  /\ InitLocals
  /\ db = [conn |-> 0, promise |-> 0, attempts |-> <<>>, connectionCount |-> 0,
           errorCount |-> 0, due |-> FALSE,
           callers |-> [p \in Callers |-> [pc |-> "idle", awaiting |-> 0, got |-> 0
                                           , calls |-> 0]]]
  /\ opts \in {DbOptions, ConnectionOptions}
  /\ listing = <<>>
  /\ dropdown = <<>>
  /\ request = [method |-> "GET", path |-> "connect"] @@ NoRequestParams
  /\ body = [isArray |-> FALSE, stops |-> <<>>]
  /\ cached = FALSE
  /\ Stop = <<>>
  /\ StopTime = {}
  /\ Trip = {}
  /\ Route = {}

NextConnect ==
  \/ \E p \in Callers : ConnectCall(p)
  \/ \E p \in Callers : HealthChecked(p)
  \/ \E k \in 1..MaxDials : Settle(k)
  \/ TimePasses

SpecConnect == InitConnect /\ [][NextConnect]_vars

\* ------------------------------------------ AddressDropdown.tsx
\* The characters an input value is made of, and its greatest length.
InputChars == {" ", "a"}

MaxInput == 3

\* Bound: the number of times inputValue changes.
MaxChanges == 3

\* setTimeout(..., 300)
DebounceMs == 300

InputValues == UNION {[1..n -> InputChars] : n \in 0..MaxInput}

\* What the dropdown leaves alone.
dropdownRest ==
  <<Stop, request, nearbyStops, StopTime, Trip, Route, cached, pc, body, sortedStops,
    stopTripsMap, allRoutes, tripRouteMap, walkIdx, routeDepartures, processedRoutes,
    result, status, nConnect, nQuery, failed, first, stopTripIds, proc, opts,
    nSchedule, listing, db>>

\* !inputValue.trim() || inputValue.length < 2
TooShort(v) == (\A i \in 1..Len(v) : v[i] = " ") \/ Len(v) < 2

\* The suggestions the autocomplete endpoint returns for an input value.
SuggestionsFor(v) == <<[description |-> v]>>

\* The ways a request ends: suggestions, a 2xx body without suggestions, a
\* non-2xx response, or fetch / response.json() throwing.
ResponseOutcomes == {"ok", "nosuggestions", "notok", "throws"}

\* setSuggestions(data.suggestions || []) when response.ok, else
\* setSuggestions([])
SuggestionsOf(outcome, v) == IF outcome = "ok" THEN SuggestionsFor(v) ELSE <<>>

\* The effect on [inputValue]: the pending timer is cleared; a short value
\* empties the suggestions; otherwise loading is set and a timer of 300 ms
\* is started whose callback fetches the suggestions of this value.
InputChange(v) ==
  /\ dropdown # <<>>
  /\ v # dropdown.inputValue
  /\ dropdown.gen < MaxChanges
  /\ dropdown' =
       IF TooShort(v)
       THEN [dropdown EXCEPT !.inputValue = v, !.gen = @ + 1, !.timer = <<>>,
                             !.latest = <<>>, !.suggestions = <<>>]
       ELSE [dropdown EXCEPT !.inputValue = v, !.gen = @ + 1, !.latest = <<>>,
                             !.loading = TRUE,
                             !.timer = <<[gen |-> dropdown.gen + 1, input |-> v,
                                          delay |-> DebounceMs]>>]
  /\ UNCHANGED dropdownRest

\* The timer fires: fetch(`/api/places/autocomplete?input=...`) is sent.
TimerFires ==
  /\ dropdown # <<>>
  /\ dropdown.timer # <<>>
  /\ dropdown' = [dropdown EXCEPT !.timer = <<>>,
                                  !.inFlight = @ \cup {[gen |-> dropdown.timer[1].gen,
                                                        input |-> dropdown.timer[1].input]}]
  /\ UNCHANGED dropdownRest

\* A request ends: the suggestions are set from it and, in the finally
\* block, loading is cleared.
ResponseArrives ==
  /\ dropdown # <<>>
  /\ \E r \in dropdown.inFlight, outcome \in ResponseOutcomes :
       dropdown' = [dropdown EXCEPT
                      !.inFlight = @ \ {r},
                      !.suggestions = SuggestionsOf(outcome, r.input),
                      !.loading = FALSE,
                      !.latest = IF r.gen = dropdown.gen
                                 THEN <<SuggestionsOf(outcome, r.input)>> ELSE @]
  /\ UNCHANGED dropdownRest

\* The component is mounted with an empty inputValue: useState([]),
\* useState(false), no timer.
InitDropdown ==
  /\ InitLocals
  /\ opts = DbOptions
  /\ listing = <<>>
  /\ db = <<>>
  /\ dropdown = [inputValue |-> <<>>, suggestions |-> <<>>, loading |-> FALSE,
                 timer |-> <<>>, inFlight |-> {}, gen |-> 0, latest |-> <<>>]
  /\ request = [method |-> "GET", path |-> "places/autocomplete"] @@ NoRequestParams
  /\ body = [isArray |-> FALSE, stops |-> <<>>]
  /\ cached = FALSE
  /\ Stop = <<>>
  /\ StopTime = {}
  /\ Trip = {}
  /\ Route = {}

NextDropdown ==
  \/ \E v \in InputValues : InputChange(v)
  \/ TimerFires
  \/ ResponseArrives

SpecDropdown == InitDropdown /\ [][NextDropdown]_vars

\* ================================================================ claims
\* What a claim speaks of, stated from the collections and the request.

IsPost == request.method = "POST"

IsGet == request.method = "GET"

\* The request has been answered 200 with a routes result.
RoutesAnswered == IsPost /\ pc = "done" /\ status = 200 /\ result # <<>>

\* The request has been answered 200 with a stop list.
StopsAnswered == IsGet /\ pc = "done" /\ status = 200 /\ nearbyStops # <<>>

\* The distinct trips of route r that call at stop s.
TripsOfRouteAt(r, s) ==
  {e.trip_id : e \in {x \in StopTime : x.stop_id = s /\
                        \E t \in Trip : t.trip_id = x.trip_id /\ t.route_id = r}}

InputStops == Range(body.stops)

\* The routes served by at least one input stop.
ServedRoutes ==
  {r \in RouteIds : \E st \in InputStops : TripsOfRouteAt(r, st.stop_id) # {}}

\* The input stops that serve r and are no farther than any other that does.
NearestServing(r) ==
  LET serving == {st \in InputStops : TripsOfRouteAt(r, st.stop_id) # {}}
  IN  {st \in serving : \A o \in serving : st.distance <= o.distance}

\* The name a route is listed under.
DisplayName(r) ==
  IF \E d \in Route : d.route_id = r /\ d.route_short_name # ""
  THEN (CHOOSE d \in Route : d.route_id = r).route_short_name
  ELSE r

\* The integer nearest to n / 7.
NearestToSeventh(n) == CHOOSE d \in 0..n : 2 * Abs(DaysPerWeek * d - n) <= DaysPerWeek

RECURSIVE SumOfDepartures(_, _)
SumOfDepartures(routes, i) ==
  IF i > Len(routes) THEN 0 ELSE routes[i].departures + SumOfDepartures(routes, i + 1)

\* C1 (as claimed): every route served by an input stop is reported, under
\* its display name, with departures = round(n / 7), n being its distinct
\* trips at the nearest input stop that serves it.
C1_NearestStopWins ==
  RoutesAnswered =>
    \A r \in ServedRoutes :
      \E e \in Range(result[1].routes) :
        /\ e.route = DisplayName(r)
        /\ \E st \in NearestServing(r) :
             e.departures = NearestToSeventh(Cardinality(TripsOfRouteAt(r, st.stop_id)))

\* C2: every stop the Locator returns has a distance d with
\* 0 <= d <= maxDistance (d in hundredths of a metre, maxDistance in metres).
C2_RadiusBound ==
  StopsAnswered =>
    \A i \in 1..Len(nearbyStops[1]) :
      /\ ~ParsedMaxDistance.nan
      /\ 0 <= nearbyStops[1][i].distance
      /\ nearbyStops[1][i].distance <= 100 * ParsedMaxDistance.v

\* A stop of the bounding box was dropped by the exact filter while another
\* was kept with a distance that rounds up to the radius itself.
C2_Witness ==
  /\ StopsAnswered
  /\ ~ParsedMaxDistance.nan
  /\ \E i \in 1..Len(nearbyStops[1]) :
       /\ nearbyStops[1][i].distance = 100 * ParsedMaxDistance.v
       /\ nearbyStops[1][i].stop_lat # 10 * nearbyStops[1][i].distance
  /\ \E j \in 1..Len(Stop) :
       /\ InBox(Stop[j], ParsedMaxDistance)
       /\ \A i \in 1..Len(nearbyStops[1]) : nearbyStops[1][i].stop_id # Stop[j].stop_id

\* C3: the Locator's list is sorted non-decreasing by distance.
C3_SortedByDistance ==
  StopsAnswered =>
    \A i \in 1..(Len(nearbyStops[1]) - 1) :
      nearbyStops[1][i].distance <= nearbyStops[1][i + 1].distance

\* Two stops are returned in the opposite of their order in the collection.
C3_Witness ==
  /\ StopsAnswered
  /\ Len(nearbyStops[1]) >= 2
  /\ nearbyStops[1][1].distance < nearbyStops[1][2].distance
  /\ \E i, j \in 1..Len(Stop) :
       /\ i < j
       /\ Stop[j].stop_id = nearbyStops[1][1].stop_id
       /\ Stop[i].stop_id = nearbyStops[1][2].stop_id

\* The parameters the specification calls valid.
ValidParams ==
  /\ ~ParsedLat.nan /\ MinLat <= ParsedLat.v /\ ParsedLat.v <= MaxLat
  /\ ~ParsedLng.nan /\ MinLng <= ParsedLng.v /\ ParsedLng.v <= MaxLng
  /\ ~ParsedMaxDistance.nan /\ MinMaxDistance <= ParsedMaxDistance.v
  /\ ParsedMaxDistance.v <= MaxMaxDistance
  /\ ~ParsedLimit.nan /\ MinLimit <= ParsedLimit.v

\* C4 (as claimed): a GET request whose parameters are not all valid is
\* answered 400 and causes no connect and no query.
C4_ValidationGate ==
  (IsGet /\ ~ValidParams) =>
    /\ pc \in {"start", "done"}
    /\ pc = "done" => status = 400
    /\ nConnect = 0
    /\ nQuery = 0

\* C5: once a connect or a query of the request has failed, the request is
\* answered 500 and carries no stop list and no routes result.
C5_FailurePropagates ==
  failed => (pc = "done" /\ status = 500 /\ result = <<>> /\ nearbyStops = <<>>)

\* A query failed after the connection had been made.
C5_Witness == failed /\ nQuery >= 1 /\ pc = "done" /\ status = 500

C7_RouteCount ==
  RoutesAnswered =>
    /\ result[1].totalRoutes = Cardinality(ServedRoutes)
    /\ Len(result[1].routes) = Cardinality(ServedRoutes)

C9_TieBreakByName ==
  RoutesAnswered =>
    \A i \in 1..(Len(result[1].routes) - 1) :
      result[1].routes[i].departures = result[1].routes[i + 1].departures =>
        NameRank(result[1].routes[i].route) < NameRank(result[1].routes[i + 1].route)

\* C10 (as claimed): a POST with an empty stop list is answered with the
\* empty result and never with an error.
C10_ZeroStops ==
  (IsPost /\ body.isArray /\ body.stops = <<>> /\ pc = "done") =>
    (status = 200 /\ result = <<EmptyResponse>>)

\* The route ids that have a route document.
ResolvableRoutes == {r \in RouteIds : \E d \in Route : d.route_id = r}

\* C11 (as claimed): every entry of the output belongs to a route that has a
\* route document (a trip without a Trip record, or with a route_id that
\* matches no Route record, gives no entry), and every served route that has
\* a route document is still listed.
C11_UnresolvableExcluded ==
  RoutesAnswered =>
    /\ \A e \in Range(result[1].routes) :
         \E r \in ResolvableRoutes \cap ServedRoutes : e.route = DisplayName(r)
    /\ \A r \in ResolvableRoutes \cap ServedRoutes :
         \E e \in Range(result[1].routes) : e.route = DisplayName(r)

StopIdsOf(list) == {list[i].stop_id : i \in 1..Len(list)}

OnBoundary(stop) ==
  /\ ~ParsedMaxDistance.nan
  /\ LET r == ISqrt(calculateDistance2(stop))
     IN  r * r = calculateDistance2(stop) /\ r = ParsedMaxDistance.v * 1000

\* C13: a stop whose distance equals maxDistance exactly passes the radius
\* filter: it is in the answer unless the answer was cut to limit stops.
C13_InclusiveBoundary ==
  (StopsAnswered /\ ~ParsedLimit.nan) =>
    \A j \in 1..Len(Stop) :
      OnBoundary(Stop[j]) =>
        \/ Stop[j].stop_id \in StopIdsOf(nearbyStops[1])
        \/ Len(nearbyStops[1]) = ParsedLimit.v

\* maxDistance is 0 and the stop at the query point is returned, with
\* distance 0.
C13_Witness ==
  /\ StopsAnswered
  /\ ParsedMaxDistance = Num(0)
  /\ \E i \in 1..Len(nearbyStops[1]) :
       /\ nearbyStops[1][i].distance = 0
       /\ nearbyStops[1][i].stop_lat = 0
       /\ nearbyStops[1][i].stop_lon = 0

\* C15 (as claimed): a nearby-routes request, by coordinates (GET) or with a
\* stop list (POST), sends at most two schedule queries, however many stops
\* it covers.
C15_BatchedResolution ==
  request.path = "get_nearby_routes" => nSchedule <= 2

\* A nearby-routes request, GET or POST, has been answered 200 with a result.
RoutesResult == request.path = "get_nearby_routes" /\ pc = "done" /\ status = 200 /\ result # <<>>

\* The pieces of text between the separators sep.
RECURSIVE Split(_, _)
Split(text, sep) ==
  IF \A k \in 1..Len(text) : text[k] # sep THEN <<text>>
  ELSE LET k == CHOOSE n \in 1..Len(text) :
                  text[n] = sep /\ \A m \in 1..(n - 1) : text[m] # sep
       IN  <<SubSeq(text, 1, k - 1)>> \o Split(SubSeq(text, k + 1, Len(text)), sep)

\* The lines of a csv after its header line, without the empty line that
\* follows a final line break.
CsvRows(csv) ==
  LET lines == Split(csv, "\n")
      n == IF lines[Len(lines)] = <<>> THEN Len(lines) - 1 ELSE Len(lines)
  IN  SubSeq(lines, 2, n)

\* C16 (as claimed): csv is the header line followed by one row per entry of
\* routes, in the order of routes, and every row has exactly two
\* comma-separated columns: the route and its departures.
C16_CsvRendering ==
  RoutesResult =>
    LET routes == result[1].routes
        lines == Split(result[1].csv, "\n")
        rows == CsvRows(result[1].csv)
    IN  /\ lines[1] = <<"route", ",", "departures">>
        /\ Len(rows) = Len(routes)
        /\ \A i \in 1..Len(rows) :
             Split(rows[i], ",") = <<NameText(routes[i].route),
                                     <<ToString(routes[i].departures)>> >>

\* The departures maps a batched call can end with when it runs alone.
RECURSIVE SoloBatched(_, _, _, _, _, _, _)
SoloBatched(sorted, i, stm, trm, routes, rd, pr) ==
  IF i > Len(sorted) THEN {rd}
  ELSE LET counts == RouteCounts(trm, StopTripIds(stm, sorted[i].stop_id))
       IN  UNION {LET done == ProcessRoutes(ord, counts, routes, rd, pr)
                  IN  SoloBatched(sorted, i + 1, stm, trm, routes, done[1], done[2]) :
                    ord \in Orders(DOMAIN counts)}

\* The departures maps a per-stop call can end with when it runs alone.
RECURSIVE SoloPerStop(_, _, _, _)
SoloPerStop(sorted, i, rd, pr) ==
  IF i > Len(sorted) THEN {rd}
  ELSE LET stopRoutes == TripAggregate(StopTripsOf(sorted[i].stop_id))
           counts == [rid \in {g._id : g \in stopRoutes} |->
                        Cardinality((CHOOSE g \in stopRoutes : g._id = rid).trip_ids)]
       IN  UNION {LET done == ProcessRoutes(ord, counts, stopRoutes, rd, pr)
                  IN  SoloPerStop(sorted, i + 1, done[1], done[2]) :
                    ord \in Orders(DOMAIN counts)}

\* The results a call with these stops can return when no other call runs.
SoloResults(mode, stops) ==
  LET sorted == SortStops(stops)
      stm == BuildStopTripsMap(StopTimeAggregate({st.stop_id : st \in Range(sorted)}))
      routes == TripAggregate(UNION {stm[st] : st \in DOMAIN stm})
  IN  IF sorted = <<>> THEN {EmptyResponse}
      ELSE IF mode = "batched"
      THEN {RoutesResponse(rd) :
              rd \in SoloBatched(sorted, 1, stm, BuildTripRouteMap(routes), routes, <<>>, {})}
      ELSE {RoutesResponse(rd) : rd \in SoloPerStop(sorted, 1, <<>>, {})}

\* C17: whatever the interleaving, a call that returns returns a result it
\* can return when run alone on the same data.
C17_Isolation ==
  \A p \in Procs :
    (proc[p].pc = "done" /\ proc[p].status = 200) =>
      proc[p].result[1] \in SoloResults(proc[p].mode, proc[p].stops)

\* Both calls have returned routes; the second finished its walk after the
\* first had claimed a route that both serve.
C17_Witness ==
  /\ \A p \in Procs : proc[p].pc = "done" /\ proc[p].status = 200
  /\ proc[1].mode # proc[2].mode
  /\ proc[1].processedRoutes \cap proc[2].processedRoutes # {}
  /\ proc[1].result[1].routes # <<>>
  /\ proc[1].result[1] # proc[2].result[1]

\* C18: a call sends each store operation at most once: one connect and one
\* stop query, whatever fails.
C18_NoInternalRetry == nConnect <= 1 /\ nQuery <= 1

\* The upstream calls of a listings request never exceed three, only a
\* response with a 2xx status ends the retrying, and after three failed
\* attempts the answer is 500 with the last error.
ListingsBounded ==
  /\ listing.calls <= 3
  /\ listing.res # <<>> =>
       listing.res[1].status >= 200 /\ listing.res[1].status <= 299
  /\ listing.pc = "done" /\ listing.res = <<>> /\ listing.calls > 0 =>
       /\ listing.calls = 3
       /\ listing.status = 500
       /\ listing.out = ErrorBody(listing.lastErr[1])

\* C19 as stated: at most three upstream calls; a failed attempt is a thrown
\* fetch error or a non-OK status; the first OK response ends the retrying
\* and its body is answered with status 200; after the third failed attempt
\* the answer is 500 with the last error.
C19_ListingsRetry ==
  /\ ListingsBounded
  /\ listing.pc = "done" /\ listing.res # <<>> =>
       /\ listing.status = 200
       /\ JsonParse(listing.out) = JsonParse(listing.res[1].body)

\* C19 amended: an OK response ends the retrying; its body is answered with
\* status 200, parsed and serialised again, when it is JSON, and the answer
\* is 500 without a further call when it is not; a request body that is not
\* JSON is answered 500 without any call; every request is answered.
C19_ListingsRetryAmended ==
  /\ [](ListingsBounded
        /\ (listing.pc \in {"parse", "done"} /\ listing.res # <<>> =>
              listing.calls = listing.i + 1)
        /\ (listing.pc = "done" /\ listing.res # <<>> =>
              LET data == JsonParse(listing.res[1].body)
              IN  IF data # <<>>
                  THEN listing.status = 200 /\ listing.out = JsonStringify(data[1])
                  ELSE listing.status = 500)
        /\ (listing.pc = "done" /\ listing.calls = 0 =>
              listing.status = 500 /\ JsonParse(listing.body) = <<>>))
  /\ <>(listing.pc = "done")

\* The third call answered OK after two failed attempts and both delays, and
\* its body came back in the canonical spelling.
C19_Witness ==
  /\ listing.pc = "done"
  /\ listing.status = 200
  /\ listing.calls = 3
  /\ listing.slept = 3000
  /\ listing.lastErr # <<>>
  /\ listing.out # listing.res[1].body

\* What one step of the walk does to the departures map and the claimed set:
\* the claimed set only grows, the entries recorded so far stay as they are,
\* and one entry is appended for each route the step claims.
WriteOnceStep ==
  /\ processedRoutes \subseteq processedRoutes'
  /\ Len(routeDepartures') >= Len(routeDepartures)
  /\ \A i \in 1..Len(routeDepartures) : routeDepartures'[i] = routeDepartures[i]
  /\ Len(routeDepartures') - Len(routeDepartures) =
       Cardinality(processedRoutes' \ processedRoutes)

\* C20: once a departures value is recorded for a route no later step of the
\* walk adds to it or overwrites it; the claimed set only grows; each output
\* entry is written exactly once, when its route is first claimed.
C20_WriteOnce == [][WriteOnceStep]_vars

\* The documents of the dense collection within the radius, as runs.
DenseInRadius ==
  {i \in 1..Len(Stop) : WithinRadius(calculateDistance2(Stop[i]), ParsedMaxDistance)}

RECURSIVE SumCopies(_)
SumCopies(S) ==
  IF S = {} THEN 0
  ELSE LET i == CHOOSE x \in S : TRUE IN Stop[i].copies + SumCopies(S \ {i})

\* C21: getNearbyStopsManual returns min(limit, k) stops when k stops lie
\* within maxDistance, and no stop within maxDistance that is strictly nearer
\* than a returned stop is missing from the result.
C21_NearestK ==
  (request.path = "get_nearby_stops" /\ pc = "done" /\ status = 200) =>
    /\ Len(nearbyStops[1]) = Min(ParsedLimit.v, SumCopies(DenseInRadius))
    /\ \A i \in DenseInRadius : \A j \in 1..Len(nearbyStops[1]) :
         calculateDistance2(Stop[i]) < calculateDistance2(nearbyStops[1][j])
           => \E m \in 1..Len(nearbyStops[1]) :
                nearbyStops[1][m].stop_id = Stop[i].stop_id

\* What the claims compare of a response.
Totals(r) == <<r.routes, r.totalRoutes, r.totalDepartures>>

\* The stops of a list that have stop-time events.
RECURSIVE WithTrips(_)
WithTrips(stops) ==
  IF stops = <<>> THEN <<>>
  ELSE IF StopTripsOf(Head(stops).stop_id) = {}
  THEN WithTrips(Tail(stops))
  ELSE <<Head(stops)>> \o WithTrips(Tail(stops))

\* C22: stops without stop-time events in the list, at any distance, leave
\* routes, totalRoutes and totalDepartures as they are without them and
\* cause no failure.
C22_StopWithoutTrips ==
  (request.method = "POST" /\ body.isArray /\ pc = "done" /\ ~failed) =>
    /\ status = 200
    /\ Totals(result[1]) \in
         {Totals(r) : r \in SoloResults("batched", WithTrips(body.stops))}

\* The nearest stop of the list has no stop-time events and a farther one
\* gave routes.
C22_Witness ==
  /\ request.method = "POST" /\ pc = "done" /\ status = 200
  /\ Len(body.stops) >= 2
  /\ StopTripsOf(SortStops(body.stops)[1].stop_id) = {}
  /\ result[1].totalDepartures > 0

\* Every permutation of a list.
Reorderings(list) ==
  {[i \in 1..Len(list) |-> list[q[i]]] : q \in Orders(1..Len(list))}

DistinctDistances(list) ==
  \A i, j \in 1..Len(list) : list[i].distance = list[j].distance => i = j

\* C23: for a stop list with pairwise distinct distances the answer is one
\* that every permutation of the list gives, and no step reorders the
\* caller's list.
C23_InputOrderIndependent ==
  [][/\ body' = body
     /\ (request.method = "POST" /\ body.isArray /\ DistinctDistances(body.stops)
           /\ pc' = "done" /\ status' = 200) =>
          \A perm \in Reorderings(body.stops) :
            Totals(result'[1]) \in {Totals(r) : r \in SoloResults("batched", perm)}]_vars

\* The caller gave three stops farthest first, and the nearest and the
\* farthest both serve a route.
C23_Witness ==
  /\ request.method = "POST" /\ pc = "done" /\ status = 200
  /\ Len(body.stops) = 3
  /\ DistinctDistances(body.stops)
  /\ body.stops[1].distance > body.stops[2].distance
  /\ body.stops[2].distance > body.stops[3].distance
  /\ StopTripsOf(body.stops[1].stop_id) \cap StopTripsOf(body.stops[3].stop_id) # {}
  /\ result[1].totalDepartures > 0

\* The (route, departures) pairs of a response and its totals.
PairsAndTotals(r) ==
  <<{<<x.route, x.departures>> : x \in Range(r.routes)}, r.totalRoutes, r.totalDepartures>>

\* A by-coordinates aggregation has answered from a list of stops.
RoutesGetAnswered ==
  /\ request.method = "GET" /\ request.path = "get_nearby_routes"
  /\ pc = "done" /\ status = 200 /\ result # <<>>
  /\ IF request.useManual THEN TRUE ELSE nearbyStops # <<>>

\* C24: on a dataset whose trips all have a route id, the per-stop walk
\* answers with (route, departures) pairs and totals that the batched walk
\* gives for the same distance-ordered stop list.
C24_BatchedAgreesWithPerStop ==
  (RoutesGetAnswered /\ \A t \in Trip : t.route_id # "") =>
    PairsAndTotals(result[1]) \in
      {PairsAndTotals(r) : r \in SoloResults("batched", WalkList)}

\* The per-stop walk went over two stops or more that share a trip and
\* answered with departures.
C24_Witness ==
  /\ RoutesGetAnswered
  /\ \A t \in Trip : t.route_id # ""
  /\ ~request.useManual
  /\ Len(WalkList) >= 2
  /\ StopTripsOf(WalkList[1].stop_id) \cap StopTripsOf(WalkList[2].stop_id) # {}
  /\ result[1].totalDepartures > 0

\* The stop list the other strategy finds for the same request.
OtherStrategyList ==
  IF request.useManual
  THEN NearbyStopsManualDense(Stop, ParsedMaxDistance, ParsedLimit)
  ELSE StopTimesManualDense(Stop, ParsedMaxDistance, ParsedLimit)

\* C25: a by-coordinates request answers with routes, totalRoutes and
\* totalDepartures that the other strategy gives for the same parameters and
\* dataset, and walks the stop list the other strategy walks.
C25_RoutesStrategiesAgree ==
  RoutesGetAnswered =>
    /\ WalkList = OtherStrategyList
    /\ Totals(result[1]) \in {Totals(r) : r \in SoloResults("perStop", OtherStrategyList)}

\* The number of distinct trips of a route that call at a stop.
TripsAt(stopId, routeId) ==
  Cardinality({t \in StopTripsOf(stopId) :
                 \E d \in Trip : d.trip_id = t /\ d.route_id = routeId})

\* The entries of a response under the display name of a route id.
EntriesOf(r, routeId) ==
  {i \in 1..Len(r.routes) : r.routes[i].route = RouteShortName(allRoutes, routeId)}

\* C26: a route with n > 0 trips at the stop is listed once with departures
\* (n + 3) div 7, a non-negative integer; with 1 to 3 trips it is listed with
\* 0 and still counted in totalRoutes.
C26_DailyAverage ==
  (pc = "done" /\ status = 200 /\ RouteShortName(allRoutes, "r1") # RouteShortName(allRoutes, "r2")) =>
    /\ \A rid \in RouteIds :
         LET n == TripsAt("s1", rid)
         IN  IF n = 0 THEN EntriesOf(result[1], rid) = {}
             ELSE /\ Cardinality(EntriesOf(result[1], rid)) = 1
                  /\ \A i \in EntriesOf(result[1], rid) :
                       /\ result[1].routes[i].departures = (n + 3) \div 7
                       /\ result[1].routes[i].departures >= 0
    /\ result[1].totalRoutes = Cardinality({rid \in RouteIds : TripsAt("s1", rid) > 0})

\* A route with three trips is listed with 0 departures next to a route with
\* more, and both are counted.
C26_Witness ==
  /\ pc = "done" /\ status = 200
  /\ TripsAt("s1", "r1") = 3
  /\ TripsAt("s1", "r2") = 2
  /\ result[1].totalRoutes = 2
  /\ result[1].totalDepartures = 0

\* C27: db.ts, no connection cached at the start: as long as no
\* mongoose.connect invocation failed, mongoose.connect was invoked exactly
\* once if any connect() call was made, every caller that returned got the
\* connection of that one invocation, and the callers still waiting all wait
\* for it.
C27_SingleFlight ==
  (~opts.healthCheck /\ db # <<>>
     /\ \A k \in 1..Len(db.attempts) : db.attempts[k] # "rejected")
  => /\ Len(db.attempts) <= 1
     /\ (\E p \in Callers : db.callers[p].calls > 0) => Len(db.attempts) = 1
     /\ \A p \in Callers :
          /\ db.callers[p].pc = "returned" => db.callers[p].got = 1
          /\ db.callers[p].pc = "await" => db.callers[p].awaiting = 1
          /\ db.callers[p].pc # "threw"

\* Three callers shared one invocation and one of them called again after
\* the connection was cached.
C27_Witness ==
  /\ db # <<>>
  /\ ~opts.healthCheck
  /\ db.attempts = <<"resolved">>
  /\ \A p \in Callers : db.callers[p].pc = "returned" /\ db.callers[p].got = 1
  /\ \E p \in Callers : db.callers[p].calls = 2

\* C28: health-checked connect(): at most one mongoose.connect invocation is
\* pending at any moment, a pending invocation's promise is the cached
\* promise (no caller has discarded it), and connectionCount is at most one
\* more than the number of invocations that have settled (one increment per
\* reconnect).
C28_SingleFlightReconnect ==
  (db # <<>> /\ opts.healthCheck)
  => /\ Cardinality(Pending(db)) <= 1
     /\ \A k \in Pending(db) : db.promise = k
     /\ db.connectionCount <= 1 + Cardinality((1..Len(db.attempts)) \ Pending(db))

\* The callers awaiting the promise of invocation k.
Waiting(k) == {p \in Callers : db.callers[p].pc = "await" /\ db.callers[p].awaiting = k}

\* A step in which invocation k fails: every caller waiting on it gets the
\* error, and afterwards no connection and no promise is cached.
FailureStep(k) ==
  (k <= Len(db.attempts) /\ db.attempts[k] = "pending" /\ db'.attempts[k] = "rejected")
  => /\ Waiting(k) # {}
     /\ \A p \in Waiting(k) : db'.callers[p].pc = "threw"
     /\ db'.conn = 0
     /\ db'.promise = 0

\* A connect() call made while nothing is cached invokes mongoose.connect
\* anew, and the caller waits for that invocation.
FreshAttemptStep(p) ==
  (db.conn = 0 /\ db.promise = 0 /\ db'.callers[p].calls = db.callers[p].calls + 1)
  => /\ Len(db'.attempts) = Len(db.attempts) + 1
     /\ db'.promise = Len(db'.attempts)
     /\ db'.callers[p].pc = "await"
     /\ db'.callers[p].awaiting = Len(db'.attempts)

\* A step in which invocation k succeeds: every caller waiting on it returns
\* its connection.
SuccessStep(k) ==
  (k <= Len(db.attempts) /\ db.attempts[k] = "pending" /\ db'.attempts[k] = "resolved")
  => \A p \in Waiting(k) : db'.callers[p].pc = "returned" /\ db'.callers[p].got = k

FailedNotCachedStep ==
  db # <<>> =>
    /\ \A k \in 1..MaxDials : FailureStep(k) /\ SuccessStep(k)
    /\ \A p \in Callers : FreshAttemptStep(p)

\* C29: when a connection attempt fails, every caller waiting on it gets
\* the error, the cached connection is empty and the cached promise cleared,
\* so the next connect() call starts a fresh attempt, which returns the new
\* connection to its callers when it succeeds; in both db modules.
C29_FailedNotCached == [][FailedNotCachedStep]_vars

\* The same for db.ts alone.
C29_FailedNotCachedPlain == [][~opts.healthCheck => FailedNotCachedStep]_vars

\* The request for the current input value has not ended yet.
NewestOutstanding ==
  \/ dropdown.timer # <<>>
  \/ \E r \in dropdown.inFlight : r.gen = dropdown.gen

\* C30: once no request is pending, the suggestions held are those returned
\* for the most recent input value (empty when that value is too short), and
\* loading is set while the request of the newest value is outstanding.
C30_LatestInputWins ==
  dropdown # <<>> =>
    /\ (dropdown.timer = <<>> /\ dropdown.inFlight = {})
         => dropdown.suggestions =
              (IF TooShort(dropdown.inputValue) \/ dropdown.latest = <<>>
               THEN <<>> ELSE dropdown.latest[1])
    /\ NewestOutstanding => dropdown.loading

====
